---------------------------- MODULE Spec2Model ----------------------------
(***************************************************************************)
(* A model of the Miracle Octad Generator engine (src/src/logic.rs) and of *)
(* the screens that drive it (src/src/app/ui/point_toggle.rs and           *)
(* src/src/app/ui/sextet_labelling.rs).                                    *)
(*                                                                         *)
(* Encoding.  A Labelled<Point, T> is a Vec<T> indexed by point_to_usize,  *)
(* so it is modelled as a function over the indices 0..N-1.  A Vector      *)
(* (Labelled<Point, bool>) is modelled by the set of indices whose         *)
(* component is true.  Points themselves are records, converted to and     *)
(* from indices by usize_to_point / point_to_usize as in the source.       *)
(***************************************************************************)
EXTENDS Naturals, FiniteSets, Sequences, TLC

VARIABLES
    selected_points,   \* point_toggle::State.selected_points (a Vector)
    call,              \* the library call made last, with what it returned
    app,               \* sextet_labelling::State: [sextet, ordering, labelling]
    selected_permutation   \* point_toggle::State.selected_permutation

vars == <<selected_points, call, app, selected_permutation>>

-----------------------------------------------------------------------------
(* finite_field_4 *)

F4Point_N == 4

F4Points == {"Zero", "One", "Alpha", "Beta"}

F4_usize_to_point(i) ==
    CASE i = 0 -> "Zero"
      [] i = 1 -> "One"
      [] i = 2 -> "Alpha"
      [] i = 3 -> "Beta"

F4_point_to_usize(p) ==
    CASE p = "Zero" -> 0
      [] p = "One" -> 1
      [] p = "Alpha" -> 2
      [] p = "Beta" -> 3

F4_add(self, other) ==
    CASE other = "Zero" -> self
      [] self = "Zero" -> other
      [] self = "One" /\ other = "One" -> "Zero"
      [] self = "One" /\ other = "Alpha" -> "Beta"
      [] self = "One" /\ other = "Beta" -> "Alpha"
      [] self = "Alpha" /\ other = "One" -> "Beta"
      [] self = "Alpha" /\ other = "Alpha" -> "Zero"
      [] self = "Alpha" /\ other = "Beta" -> "One"
      [] self = "Beta" /\ other = "One" -> "Alpha"
      [] self = "Beta" /\ other = "Alpha" -> "One"
      [] self = "Beta" /\ other = "Beta" -> "Zero"

\* The arm (Alpha, Beta) returns Alpha.
F4_mul_mut(self, other) ==
    CASE other = "Zero" -> "Zero"
      [] self = "Zero" -> "Zero"
      [] other = "One" -> self
      [] self = "One" -> other
      [] self = "Alpha" /\ other = "Alpha" -> "Beta"
      [] self = "Alpha" /\ other = "Beta" -> "Alpha"
      [] self = "Beta" /\ other = "Alpha" -> "One"
      [] self = "Beta" /\ other = "Beta" -> "Alpha"

F4_mul(self, other) ==
    CASE other = "Zero" -> "Zero"
      [] self = "Zero" -> "Zero"
      [] other = "One" -> self
      [] self = "One" -> other
      [] self = "Alpha" /\ other = "Alpha" -> "Beta"
      [] self = "Alpha" /\ other = "Beta" -> "One"
      [] self = "Beta" /\ other = "Alpha" -> "One"
      [] self = "Beta" /\ other = "Beta" -> "Alpha"

\* Option<Point>: "None" stands for None, a label for Some(label).
F4_inverse(self) ==
    CASE self = "Zero" -> "None"
      [] self = "One" -> "One"
      [] self = "Alpha" -> "Beta"
      [] self = "Beta" -> "Alpha"

\* Alpha and Beta left in place.
F4_conjugate_mut(self) == self

F4_conjugate(self) ==
    CASE self = "Zero" -> "Zero"
      [] self = "One" -> "One"
      [] self = "Alpha" -> "Beta"
      [] self = "Beta" -> "Alpha"

\* Enumerated::usize_to_point as the Result it returns; F4_usize_to_point is
\* its unwrap.
F4_usize_to_point_result(i) ==
    CASE i = 0 -> [tag |-> "Ok", value |-> "Zero"]
      [] i = 1 -> [tag |-> "Ok", value |-> "One"]
      [] i = 2 -> [tag |-> "Ok", value |-> "Alpha"]
      [] i = 3 -> [tag |-> "Ok", value |-> "Beta"]
      [] OTHER -> [tag |-> "Err"]

-----------------------------------------------------------------------------
(* hexacode *)

Side_N == 2
Pair_N == 3
HexacodePoint_N == 6

Side_usize_to_point(i) == CASE i = 0 -> "Left" [] i = 1 -> "Right"

Side_point_to_usize(s) == CASE s = "Left" -> 0 [] s = "Right" -> 1

flip(s) == CASE s = "Left" -> "Right" [] s = "Right" -> "Left"

Pair_usize_to_point(i) ==
    CASE i = 0 -> "Left" [] i = 1 -> "Middle" [] i = 2 -> "Right"

Pair_point_to_usize(p) ==
    CASE p = "Left" -> 0 [] p = "Middle" -> 1 [] p = "Right" -> 2

Hex_usize_to_point(i) ==
    [side |-> Side_usize_to_point(i % 2), pair |-> Pair_usize_to_point(i \div 2)]

\* The side and the pair exchanged.
Hex_point_to_usize_mut(h) ==
    Pair_point_to_usize(h.pair) + 2 * Side_point_to_usize(h.side)

Hex_point_to_usize(h) ==
    Side_point_to_usize(h.side) + 2 * Pair_point_to_usize(h.pair)

HexIdx == 0 .. (HexacodePoint_N - 1)

Side_usize_to_point_result(i) ==
    CASE i = 0 -> [tag |-> "Ok", value |-> "Left"]
      [] i = 1 -> [tag |-> "Ok", value |-> "Right"]
      [] OTHER -> [tag |-> "Err"]

Pair_usize_to_point_result(i) ==
    CASE i = 0 -> [tag |-> "Ok", value |-> "Left"]
      [] i = 1 -> [tag |-> "Ok", value |-> "Middle"]
      [] i = 2 -> [tag |-> "Ok", value |-> "Right"]
      [] OTHER -> [tag |-> "Err"]

\* The unwraps of the two inner results cannot fail when i < 6.
Hex_usize_to_point_result(i) ==
    IF i < 6
    THEN [tag |-> "Ok",
          value |-> [side |-> Side_usize_to_point_result(i % 2).value,
                     pair |-> Pair_usize_to_point_result(i \div 2).value]]
    ELSE [tag |-> "Err"]

-----------------------------------------------------------------------------
(* miracle_octad_generator: points and vectors *)

MOGPoint_N == 24

MOG_usize_to_point(i) ==
    [col |-> Hex_usize_to_point(i % 6), row |-> F4_usize_to_point(i \div 6)]

MOG_point_to_usize(p) ==
    Hex_point_to_usize(p.col) + 6 * F4_point_to_usize(p.row)

PointIdx == 0 .. (MOGPoint_N - 1)

MOG_usize_to_point_result(i) ==
    IF i < 24
    THEN [tag |-> "Ok",
          value |-> [col |-> Hex_usize_to_point_result(i % 6).value,
                     row |-> F4_usize_to_point_result(i \div 6).value]]
    ELSE [tag |-> "Err"]

\* Point::points()
MOGPoints == {MOG_usize_to_point(i) : i \in PointIdx}

\* Vector::from_fn(f): component i is f(usize_to_point(i)).  The predicate f
\* is given as the set of the points it holds of.
Vector_from_fn(f) == {i \in PointIdx : MOG_usize_to_point(i) \in f}

zero == {}

\* &a + &b (XOR), &a & &b, &a | &b
add(a, b) == (a \ b) \cup (b \ a)

bitand(a, b) == a \cap b

bitor(a, b) == a \cup b

\* self.contains(other): no point of other lies outside self
contains(self, other) == \A p \in other : p \in self

weight(v) == Cardinality(v)


\* v.points(): the points of v in index order
RECURSIVE points_from(_, _)
points_from(v, i) ==
    IF i >= MOGPoint_N THEN <<>>
    ELSE IF i \in v THEN <<i>> \o points_from(v, i + 1)
    ELSE points_from(v, i + 1)

points(v) == points_from(v, 0)

\* Vector::from_points
from_points(ps) == ps

\* The position taken to be the index of the point.
cmp_rank_mut(i) == i

\* Ord for Vector: the components are compared in the order of the points
\* listed column by column (hexacode::Point outer, F4Point inner), false < true.
\* cmp_rank(i): the position of point i in that list.
cmp_rank(i) ==
    LET p == MOG_usize_to_point(i)
    IN  Hex_point_to_usize(p.col) * F4Point_N + F4_point_to_usize(p.row)

\* self.cmp(other) = Less: at the first component that differs, self holds
\* false and other true.
cmp_less(self, other) ==
    LET differ == add(self, other)
    IN  /\ differ # {}
        /\ (CHOOSE p \in differ :
              \A q \in differ : cmp_rank(p) <= cmp_rank(q)) \in other

\* self.cmp(other): the Ordering returned.
Vector_cmp(self, other) ==
    IF self = other THEN "Equal"
    ELSE IF cmp_less(self, other) THEN "Less" ELSE "Greater"

\* sort_unstable() of a Vec holding the distinct vectors of vs, in any order
RECURSIVE sort_unstable(_)
sort_unstable(vs) ==
    IF vs = {} THEN <<>>
    ELSE LET least == CHOOSE v \in vs : \A u \in vs \ {v} : cmp_less(v, u)
         IN  <<least>> \o sort_unstable(vs \ {least})

RECURSIVE reverse(_)
reverse(seq) ==
    IF seq = <<>> THEN <<>> ELSE Append(reverse(Tail(seq)), Head(seq))

\* OrderedSextet::from_foursomes, on a Labelled<hexacode::Point, Vector>
\* (a function over HexIdx): the two loops of asserts, then the value.
from_foursomes(foursomes) ==
    IF /\ \A h \in HexIdx : weight(foursomes[h]) = 4
       /\ \A i \in HexIdx : \A j \in 0 .. (i - 1) :
             weight(bitand(foursomes[i], foursomes[j])) = 0
    THEN [tag |-> "Ok", foursomes |-> foursomes]
    ELSE [tag |-> "Panic"]

-----------------------------------------------------------------------------
(* BinaryGolayCode::default: the basis *)

col1 == [side |-> "Left", pair |-> "Left"]

col2s ==
    << [side |-> "Right", pair |-> "Left"],
       [side |-> "Left", pair |-> "Middle"],
       [side |-> "Right", pair |-> "Middle"],
       [side |-> "Left", pair |-> "Right"],
       [side |-> "Right", pair |-> "Right"] >>

basis_cols(col2) == Vector_from_fn({p \in MOGPoints : p.col = col1 \/ p.col = col2})

\* A slip in the first column: "==" for "!=".
basis_val_mut(val) ==
    Vector_from_fn({p \in MOGPoints :
        IF p.col.pair = "Left"
        THEN (IF p.col.side = "Left" THEN p.row = "Zero" ELSE p.row = "Zero")
        ELSE p.row = val})

basis_val(val) ==
    Vector_from_fn({p \in MOGPoints :
        IF p.col.pair = "Left"
        THEN (IF p.col.side = "Left" THEN p.row # "Zero" ELSE p.row = "Zero")
        ELSE p.row = val})

\* One match of the last four basis vectors: per column, `ne` is TRUE for
\* "p.row != v" and FALSE for "p.row == v".
basis_match(ll, rl, lm, rm, lr, rr) ==
    Vector_from_fn({p \in MOGPoints :
        LET c == CASE p.col = [side |-> "Left", pair |-> "Left"] -> ll
                   [] p.col = [side |-> "Right", pair |-> "Left"] -> rl
                   [] p.col = [side |-> "Left", pair |-> "Middle"] -> lm
                   [] p.col = [side |-> "Right", pair |-> "Middle"] -> rm
                   [] p.col = [side |-> "Left", pair |-> "Right"] -> lr
                   [] p.col = [side |-> "Right", pair |-> "Right"] -> rr
        IN  IF c.ne THEN p.row # c.v ELSE p.row = c.v})

Eq(v) == [ne |-> FALSE, v |-> v]

Ne(v) == [ne |-> TRUE, v |-> v]

basis ==
    << basis_cols(col2s[1]), basis_cols(col2s[2]), basis_cols(col2s[3]),
       basis_cols(col2s[4]), basis_cols(col2s[5]),
       basis_val("One"), basis_val("Alpha"), basis_val("Beta"),
       basis_match(Ne("Zero"), Eq("One"), Eq("Zero"), Eq("One"), Eq("Alpha"), Eq("Beta")),
       basis_match(Ne("Zero"), Eq("Alpha"), Eq("Zero"), Eq("Alpha"), Eq("Beta"), Eq("One")),
       basis_match(Eq("One"), Ne("Zero"), Eq("Zero"), Eq("One"), Eq("Beta"), Eq("Alpha")),
       basis_match(Eq("Alpha"), Ne("Zero"), Eq("Zero"), Eq("Alpha"), Eq("One"), Eq("Beta")) >>

\* 1usize << i
RECURSIVE shl1(_)
shl1(i) == IF i = 0 THEN 1 ELSE 2 * shl1(i - 1)

\* The inner loop of the span: codeword = XOR of basis[i] over the bits i of b
\* (basis is 1-indexed here, 0-indexed in the source).
RECURSIVE span_from(_, _, _)
span_from(b, i, codeword) ==
    IF i >= Len(basis) THEN codeword
    ELSE span_from(b, i + 1,
                   IF (b \div shl1(i)) % 2 # 0
                   THEN add(codeword, basis[i + 1])
                   ELSE codeword)

\* The span as the sequence of inserts, b = 0 .. 2^12 - 1, and as the HashSet.
codeword_of(b) == span_from(b, 0, zero)

codewords == {codeword_of(b) : b \in 0 .. (shl1(Len(basis)) - 1)}


-----------------------------------------------------------------------------
(* BinaryGolayCode: the calls.  The codewords are held in a HashSet, whose  *)
(* iteration order is unspecified: a scan "for codeword in &self.codewords" *)
(* that returns at a hit may return at any hit, so each call is modelled by *)
(* the set of all outcomes some iteration order produces.                   *)

is_codeword(vector) == vector \in codewords

is_octad(vector) == weight(vector) = 8 /\ vector \in codewords

Err == [tag |-> "Err"]

Ok(v) == [tag |-> "Ok", value |-> v]

\* unreachable!(), a failed assert, an index out of bounds
Panic == [tag |-> "Panic"]

\* The scan without its weight test.
complete_octad_outcomes_mut(vector) ==
    IF weight(vector) # 5 THEN {Err}
    ELSE LET hits == {codeword \in codewords : contains(codeword, vector)}
         IN  IF hits = {} THEN {Panic} ELSE {Ok(codeword) : codeword \in hits}

complete_octad_outcomes(vector) ==
    IF weight(vector) # 5 THEN {Err}
    ELSE LET hits == {codeword \in codewords :
                        weight(codeword) = 8 /\ contains(codeword, vector)}
         IN  IF hits = {} THEN {Panic} ELSE {Ok(codeword) : codeword \in hits}

\* The weight test written "<".
complete_sextet_weight_mut(vector) ==
    IF weight(vector) < 4 THEN Err
    ELSE Ok({offset \in {add(codeword, vector) : codeword \in codewords} :
                weight(offset) = 4})

\* The offset taken as the union, not the sum.
complete_sextet_mut(vector) ==
    IF weight(vector) # 4 THEN Err
    ELSE Ok({offset \in {bitor(codeword, vector) : codeword \in codewords} :
                weight(offset) = 4})

\* The HashSet the scan fills; its length is what the debug assertion reads.
complete_sextet(vector) ==
    IF weight(vector) # 4 THEN Err
    ELSE Ok({offset \in {add(codeword, vector) : codeword \in codewords} :
                weight(offset) = 4})

\* The scan with its first threshold off by one (distance <= 4).
nearest_codeword_outcomes_mut(vector) ==
    LET close == {codeword \in codewords : weight(add(vector, codeword)) <= 4}
    IN  IF close # {}
        THEN {[tag |-> "Unique", codeword |-> codeword,
               distance |-> weight(add(vector, codeword)),
               dist_4_seen |-> {}] : codeword \in close}
        ELSE {Panic}

\* The scan pushing diff where it should push codeword.
nearest_codeword_outcomes_diff_mut(vector) ==
    LET near == {codeword \in codewords : weight(add(vector, codeword)) <= 4}
        close == {codeword \in near : weight(add(vector, codeword)) <= 3}
        dist_4_codewords == {add(vector, codeword) : codeword \in near \ close}
    IN  IF close # {}
        THEN {[tag |-> "Unique", codeword |-> codeword,
               distance |-> weight(add(vector, codeword)),
               dist_4_seen |-> seen] :
                 codeword \in close, seen \in SUBSET dist_4_codewords}
        ELSE IF Cardinality(dist_4_codewords) < 6 THEN {Panic}
        ELSE UNION {
               {[tag |-> "Six", first |-> first, others |-> others,
                 dist_4_len |-> Cardinality(dist_4_codewords)] :
                   others \in {o \in SUBSET (dist_4_codewords \ {first}) :
                                 Cardinality(o) = 5}} :
               first \in dist_4_codewords}

\* nearest_codeword.  dist_4_seen: the distance-4 codewords pushed before the
\* scan returned Unique (any of them may precede the hit).  For Six, the array
\* is given by its entry 0 and the set of its entries 1..5; dist_4_len is
\* dist_4_codewords.len() at the end of the scan.
nearest_codeword_outcomes(vector) ==
    LET near == {codeword \in codewords : weight(add(vector, codeword)) <= 4}
        close == {codeword \in near : weight(add(vector, codeword)) <= 3}
        dist_4_codewords == near \ close
    IN  IF close # {}
        THEN {[tag |-> "Unique", codeword |-> codeword,
               distance |-> weight(add(vector, codeword)),
               dist_4_seen |-> seen] :
                 codeword \in close, seen \in SUBSET dist_4_codewords}
        ELSE IF Cardinality(dist_4_codewords) < 6 THEN {Panic}
        ELSE UNION {
               {[tag |-> "Six", first |-> first, others |-> others,
                 dist_4_len |-> Cardinality(dist_4_codewords)] :
                   others \in {o \in SUBSET (dist_4_codewords \ {first}) :
                                 Cardinality(o) = 5}} :
               first \in dist_4_codewords}

-----------------------------------------------------------------------------
(* permutation::Permutation<T>.  perm is the Vec of pairs (a sequence of     *)
(* <<a, b>>), right and left the two HashMaps (functions on their key sets). *)

\* perm.iter().cloned().collect::<HashMap>() of the first n pairs: a later
\* pair with the same key replaces an earlier one.
RECURSIVE collect_map(_, _)
collect_map(pairs, n) ==
    IF n = 0 THEN <<>>
    ELSE (pairs[n][1] :> pairs[n][2]) @@ collect_map(pairs, n - 1)

swap_pairs(pairs) == [i \in DOMAIN pairs |-> <<pairs[i][2], pairs[i][1]>>]

from_perm_unchecked(perm) ==
    [perm  |-> perm,
     right |-> collect_map(perm, Len(perm)),
     left  |-> collect_map(swap_pairs(perm), Len(perm))]

identity == from_perm_unchecked(<<>>)

\* points: T::points() as a sequence; f: a function on the points.  The
\* assert on the number of distinct images, then the pairs (point, image).
from_fn(points_of_T, f) ==
    LET images == [i \in DOMAIN points_of_T |-> f[points_of_T[i]]]
    IN  IF Cardinality({images[i] : i \in DOMAIN points_of_T}) # Len(points_of_T)
        THEN Panic
        ELSE from_perm_unchecked(
                 [i \in DOMAIN points_of_T |-> <<points_of_T[i], images[i]>>])

new_swap(t1, t2) ==
    IF t1 = t2 THEN identity
    ELSE from_perm_unchecked(<< <<t1, t2>>, <<t2, t1>> >>)

\* ts: a sequence of points
new_cycle(ts) ==
    LET n == Len(ts)
    IN  IF Cardinality({ts[i] : i \in 1 .. n}) # n THEN Panic
        ELSE from_perm_unchecked([i \in 1 .. n |-> <<ts[i], ts[(i % n) + 1]>>])

\* The two maps are not exchanged.
inverse_mut(self) ==
    [perm |-> swap_pairs(self.perm), right |-> self.right, left |-> self.left]

inverse(self) ==
    [perm |-> swap_pairs(self.perm), right |-> self.left, left |-> self.right]

apply(self, t) == IF t \in DOMAIN self.right THEN self.right[t] ELSE t

apply_inverse(self, t) == IF t \in DOMAIN self.left THEN self.left[t] ELSE t

\* The operands applied in the other order.
Mul_mut(self, other, iteration) ==
    LET keys == DOMAIN self.right \cup DOMAIN other.right
        image(t) == apply(self, apply(other, t))
        kept(t) == t \in keys /\ t # image(t)
        order == SelectSeq(iteration, kept)
    IN  from_perm_unchecked([i \in DOMAIN order |-> <<order[i], image(order[i])>>])

\* &self * &other.  The pairs are collected while iterating over a HashSet,
\* the union of the two key sets; iteration lists the points in the order
\* that HashSet yields them.
Mul(self, other, iteration) ==
    LET keys == DOMAIN self.right \cup DOMAIN other.right
        image(t) == apply(other, apply(self, t))
        kept(t) == t \in keys /\ t # image(t)
        order == SelectSeq(iteration, kept)
    IN  from_perm_unchecked([i \in DOMAIN order |-> <<order[i], image(order[i])>>])

\* PartialEq for Permutation
Permutation_eq(self, other) == self.right = other.right

\* hexacode::Point::points()
Hex_points == [i \in 1 .. HexacodePoint_N |-> Hex_usize_to_point(i - 1)]

\* Permutation::<hexacode::Point>::from_fn
Hex_from_fn(f) == from_fn(Hex_points, f)

\* Labelled<hexacode::Point, T>::permute: component i is taken from the index
\* of apply_inverse(usize_to_point(i)).
Hex_permute(components, permutation) ==
    [i \in HexIdx |->
        components[Hex_point_to_usize(apply_inverse(permutation, Hex_usize_to_point(i)))]]

\* The loop of disjoint_cycles that follows right from t: s is pushed, then
\* replaced by right.get(s).unwrap(), until s == t.  A cycle longer than the
\* number of keys never comes back to t: the loop does not end.
RECURSIVE follow_cycle(_, _, _, _)
follow_cycle(self, t, s, cycle) ==
    IF s \notin DOMAIN self.right THEN Panic
    ELSE IF self.right[s] = t THEN Ok(Append(cycle, s))
    ELSE IF Len(cycle) >= Cardinality(DOMAIN self.right) THEN [tag |-> "Diverges"]
    ELSE follow_cycle(self, t, self.right[s], Append(cycle, s))

\* The cycles of length 1 kept.
keep_cycle_mut(cycles, cycle) == Append(cycles, cycle)

\* if cycle.len() >= 2 { cycles.push(cycle) }
keep_cycle(cycles, cycle) ==
    IF Len(cycle) >= 2 THEN Append(cycles, cycle) ELSE cycles

\* for t in self.right.keys(): keys is the sequence of the keys still to
\* come, in the order the HashMap yields them.
RECURSIVE cycles_over(_, _, _, _), cycles_found(_, _, _, _, _)
cycles_over(self, keys, used, cycles) ==
    IF keys = <<>> THEN Ok(cycles)
    ELSE IF Head(keys) \in used THEN cycles_over(self, Tail(keys), used, cycles)
    ELSE cycles_found(self, keys, used, cycles,
                      follow_cycle(self, Head(keys), Head(keys), <<>>))

\* The end of the body of the loop over the keys, cycle being the cycle
\* that was followed from Head(keys).
cycles_found(self, keys, used, cycles, cycle) ==
    IF cycle.tag # "Ok" THEN cycle
    ELSE cycles_over(self, Tail(keys),
             used \cup {cycle.value[i] : i \in DOMAIN cycle.value},
             keep_cycle(cycles, cycle.value))

\* iteration lists the points in the order self.right.keys() yields them.
in_right(self, t) == t \in DOMAIN self.right

disjoint_cycles(self, iteration) ==
    LET key(t) == in_right(self, t)
    IN  cycles_over(self, SelectSeq(iteration, key), {}, <<>>)

-----------------------------------------------------------------------------
(* OrderedSextet (its foursomes, a function over HexIdx) and               *)
(* OrderedSextetLabelling ([sextet, labels], labels a function on PointIdx) *)

\* OrderedSextet::point_foursomes: the hexacode point of the foursome each
\* point lies in (a later foursome overwrites an earlier one; a point in no
\* foursome makes the unwrap panic).
point_foursomes(foursomes) ==
    [p \in PointIdx |->
        IF \E h \in HexIdx : p \in foursomes[h]
        THEN Hex_usize_to_point(
                 CHOOSE h \in HexIdx :
                    /\ p \in foursomes[h]
                    /\ \A g \in HexIdx : p \in foursomes[g] => g <= h)
        ELSE "Panic"]

\* OrderedSextet::permute
OrderedSextet_permute(foursomes, perm) == Hex_permute(foursomes, perm)

permute_foursomes(self, perm) ==
    [sextet |-> OrderedSextet_permute(self.sextet, perm), labels |-> self.labels]

\* The component of vector is taken at the column of the point.
add_vector_mut(self, vector) ==
    [sextet |-> self.sextet,
     labels |-> [point \in PointIdx |->
                    F4_add(self.labels[point], vector[MOG_usize_to_point(point).col])]]

\* vector: a hexacode::Vector, here a function on the hexacode points
add_vector(self, vector) ==
    LET pf == point_foursomes(self.sextet)
    IN  [sextet |-> self.sextet,
         labels |-> [point \in PointIdx |-> F4_add(self.labels[point], vector[pf[point]])]]

\* The values multiplied by lambda, not by its inverse.
scalar_mul_mut(self, lambda) ==
    IF lambda = "Zero" THEN Panic
    ELSE [sextet |-> self.sextet,
          labels |-> [point \in PointIdx |-> F4_mul(self.labels[point], lambda)]]

scalar_mul(self, lambda) ==
    IF lambda = "Zero" THEN Panic
    ELSE [sextet |-> self.sextet,
          labels |-> [point \in PointIdx |->
                         F4_mul(self.labels[point], F4_inverse(lambda))]]

\* OrderedSextetLabelling::conjugate
Labelling_conjugate(self) ==
    [sextet |-> self.sextet,
     labels |-> [point \in PointIdx |-> F4_conjugate(self.labels[point])]]

-----------------------------------------------------------------------------
(* BinaryGolayCode::complete_labelling *)

\* The codewords that pass the weight test of the scan in complete_octad.
octads == {codeword \in codewords : weight(codeword) = 8}

\* self.complete_octad(vector).unwrap(): Panic for an Err and for
\* unreachable!(), else the hit the scan returns at (Thm_C2: there is one).
complete_octad_unwrap(vector) ==
    IF weight(vector) # 5 THEN Panic
    ELSE LET hits == {codeword \in octads : contains(codeword, vector)}
         IN  IF hits = {} THEN Panic ELSE Ok(CHOOSE codeword \in hits : TRUE)

\* take_unique_pt: the first point of v; the unwrap panics on the empty vector.
take_unique_pt(v) ==
    IF v = {} THEN Panic ELSE Ok(CHOOSE p \in v : \A q \in v : p <= q)

\* The match on alpha completing the hexacodeword (0, 1, alpha, ?, ?, ?).
beta_gamma_delta(alpha) ==
    CASE alpha = "Zero"  -> <<"One", "Alpha", "Beta">>
      [] alpha = "One"   -> <<"Zero", "Beta", "Alpha">>
      [] alpha = "Alpha" -> <<"Beta", "Zero", "One">>
      [] alpha = "Beta"  -> <<"Alpha", "One", "Zero">>

\* The loop over (li, wi): items is the sequence of the <<li, wi>> still to
\* do; each octad through (T1 \ {x}) U {y, wi} labels its points in t2345.
RECURSIVE label_t2345(_, _, _, _, _)
label_t2345(items, labels, t0x, y, t2345) ==
    IF items = <<>> THEN Ok(labels)
    ELSE LET li == Head(items)[1]
             wi == Head(items)[2]
             octad == complete_octad_unwrap(from_points(t0x \cup {y, wi}))
         IN  IF octad.tag # "Ok" THEN Panic
             ELSE label_t2345(Tail(items),
                      [p \in PointIdx |->
                          IF p \in bitand(octad.value, t2345) THEN li ELSE labels[p]],
                      t0x, y, t2345)

\* The loop over the points q of t3: qs is the sequence of the points still
\* to do; the label of q is read when its turn comes.
RECURSIVE label_t01(_, _, _, _, _)
label_t01(qs, labels, final_four, t4, t5) ==
    IF qs = <<>> THEN Ok(labels)
    ELSE LET q == Head(qs)
             l == labels[q]
             octad == complete_octad_unwrap(from_points(final_four \cup {q}))
         IN  IF octad.tag # "Ok" THEN Panic
             ELSE label_t01(Tail(qs),
                      [p \in PointIdx |->
                          IF p \in octad.value /\ p \notin t4 /\ p \notin t5
                          THEN l ELSE labels[p]],
                      final_four, t4, t5)

\* The end of complete_labelling: OrderedSextetLabelling { sextet, labels }
labelling_of(sextet, labels3) ==
    IF labels3.tag # "Ok" THEN Panic
    ELSE Ok([sextet |-> sextet, labels |-> labels3.value])

\* The fourth step: final_four and the loop over the points of t3, which
\* labels t0 and t1.
label_final_four(sextet, labels2) ==
    IF labels2.tag # "Ok" THEN Panic
    ELSE labelling_of(sextet,
             label_t01(points(sextet[3]), labels2.value,
                 {p \in sextet[5] : labels2.value[p] # "Zero"} \cup
                 {p \in sextet[4] : labels2.value[p] = "Zero"},
                 sextet[4], sextet[5]))

\* The second and third steps: ws holds the unique points w2, w3, w4, w5 of
\* the first octad in t2, t3, t4, t5; w3, w4, w5 get beta, gamma, delta and
\* the loop over (li, wi) labels t2345.
label_unique_pts(sextet, t0x, y, z, w, alpha, ws) ==
    IF \E i \in 1 .. 4 : ws[i].tag # "Ok" THEN Panic
    ELSE LET bgd == beta_gamma_delta(alpha)
         IN  label_final_four(sextet,
                 label_t2345(
                     << <<alpha, ws[1].value>>, <<bgd[1], ws[2].value>>,
                        <<bgd[2], ws[3].value>>, <<bgd[3], ws[4].value>> >>,
                     [p \in PointIdx |->
                         IF p = ws[4].value THEN bgd[3]
                         ELSE IF p = ws[3].value THEN bgd[2]
                         ELSE IF p = ws[2].value THEN bgd[1]
                         ELSE IF p = w THEN alpha
                         ELSE IF p = z THEN "One" ELSE "Zero"],
                     t0x, y,
                     bitor(bitor(sextet[2], sextet[3]), bitor(sextet[4], sextet[5]))))

\* The first step: octad is the octad through (T1 \ {x}) U {z, w}.
label_first_octad(sextet, t0x, y, z, w, alpha, octad) ==
    IF octad.tag # "Ok" THEN Panic
    ELSE label_unique_pts(sextet, t0x, y, z, w, alpha,
             <<take_unique_pt(bitand(octad.value, sextet[2])),
               take_unique_pt(bitand(octad.value, sextet[3])),
               take_unique_pt(bitand(octad.value, sextet[4])),
               take_unique_pt(bitand(octad.value, sextet[5]))>>)

\* The first octad is taken through y, not z.
complete_labelling_mut(sextet, x, y, z, w, alpha) ==
    IF ~(x \in sextet[0] /\ y \in sextet[1] /\ z \in sextet[1] /\ w \in sextet[2]
         /\ y # z)
    THEN Panic
    ELSE label_first_octad(sextet, {p \in sextet[0] : p # x}, y, z, w, alpha,
             complete_octad_unwrap(
                 from_points({p \in sextet[0] : p # x} \cup {y, w})))

\* sextet: the foursomes of the OrderedSextet, a function over HexIdx.  The
\* value is Panic or Ok of an OrderedSextetLabelling.
complete_labelling(sextet, x, y, z, w, alpha) ==
    IF ~(x \in sextet[0] /\ y \in sextet[1] /\ z \in sextet[1] /\ w \in sextet[2]
         /\ y # z)
    THEN Panic
    ELSE label_first_octad(sextet, {p \in sextet[0] : p # x}, y, z, w, alpha,
             complete_octad_unwrap(
                 from_points({p \in sextet[0] : p # x} \cup {z, w})))

-----------------------------------------------------------------------------
(* sextet_labelling::State.  self is [sextet, ordering, labelling]: sextet   *)
(* the Vec of six foursomes (a sequence), ordering the Vec<FoursomeIndex>    *)
(* (a function HexIdx -> 0 .. 5), labelling a function on PointIdx whose     *)
(* values are the F4Points and "None".                                       *)

HexPoints == {Hex_usize_to_point(i) : i \in HexIdx}

\* foursome: a hexacode::Point
get_foursome(self, foursome) ==
    self.sextet[self.ordering[Hex_point_to_usize(foursome)] + 1]

ordered_sextet(self) ==
    from_foursomes([h \in HexIdx |-> get_foursome(self, Hex_usize_to_point(h))])

\* .iter().find_map(..): the first hexacode point, in index order, of a set
first_foursome(hs) ==
    CHOOSE h \in hs : \A g \in hs : Hex_point_to_usize(h) <= Hex_point_to_usize(g)

Underset == [tag |-> "Underset"]

\* Overset reported as Underset.
Overset_mut == [tag |-> "Underset"]

Overset == [tag |-> "Overset"]

\* The record with x and y exchanged.
Perfect_mut(x, y, z, pair, side, third) ==
    [tag |-> "Perfect", x |-> y, y |-> x, z |-> z,
     pair |-> pair, side |-> side, third |-> third]

Perfect(x, y, z, pair, side, third) ==
    [tag |-> "Perfect", x |-> x, y |-> y, z |-> z,
     pair |-> pair, side |-> side, third |-> third]

partial_labelling_state(self) ==
    LET sextet == [h \in HexPoints |-> get_foursome(self, h)]
        used_labels == [h \in HexPoints |->
                           {self.labelling[p] : p \in sextet[h]} \ {"None"}]
        duplicate == \E h \in HexPoints : \E p, q \in sextet[h] :
                        /\ p # q
                        /\ self.labelling[p] # "None"
                        /\ self.labelling[p] = self.labelling[q]
        len(h) == Cardinality(used_labels[h])
        with_label == {h \in HexPoints : used_labels[h] # {}}
        two_labels == {h \in HexPoints : len(h) = 2}
    IN  IF duplicate THEN Overset
        ELSE IF \E h \in HexPoints : len(h) >= 3 THEN Overset
        ELSE IF two_labels # {} THEN
            LET two_labels_foursome == first_foursome(two_labels)
            IN  IF \E h \in HexPoints : h # two_labels_foursome /\ len(h) >= 2
                THEN Overset
                ELSE IF Cardinality(with_label) = 2 THEN
                    LET one_label_foursome ==
                            first_foursome({h \in HexPoints : len(h) = 1})
                    IN  IF /\ one_label_foursome.pair = two_labels_foursome.pair
                           /\ ~(\E two_label \in used_labels[two_labels_foursome] :
                                   used_labels[one_label_foursome] = {two_label})
                        THEN Overset
                        ELSE Underset
                ELSE IF Cardinality(with_label) = 3 THEN
                    LET adjacent == {h \in HexPoints :
                                        len(h) = 1 /\ h.pair = two_labels_foursome.pair}
                    IN  IF adjacent # {} THEN
                            LET one_label_adjacent_foursome == first_foursome(adjacent)
                                pair == two_labels_foursome.pair
                                one_label_nonadjacent_foursome ==
                                    first_foursome({h \in HexPoints :
                                        len(h) = 1 /\ h # one_label_adjacent_foursome})
                                one_label_adjacent ==
                                    CHOOSE l \in used_labels[one_label_adjacent_foursome] : TRUE
                            IN  IF one_label_adjacent \notin used_labels[two_labels_foursome]
                                THEN Overset
                                ELSE
                                LET one_label_nonadjacent ==
                                        CHOOSE l \in used_labels[one_label_nonadjacent_foursome] : TRUE
                                    x == one_label_adjacent
                                    y == CHOOSE two_label \in used_labels[two_labels_foursome] :
                                            two_label # x
                                    z == one_label_nonadjacent
                                IN  Perfect(x, y, z, pair, one_label_adjacent_foursome.side,
                                            one_label_nonadjacent_foursome)
                        ELSE Overset
                ELSE IF Cardinality(with_label) >= 4 THEN Overset
                ELSE Underset
        ELSE IF Cardinality(with_label) >= 4 THEN Overset
        ELSE IF /\ Cardinality(with_label) = 3
                /\ \A g, h \in with_label : g # h => g.pair # h.pair
             THEN Overset
        ELSE Underset

\* Perfect is not accepted.
allowed_labels_mut(self) ==
    [p \in PointIdx |->
        {label \in F4Points :
            LET modified_self ==
                    [self EXCEPT !.labelling = [@ EXCEPT ![p] = label]]
            IN  partial_labelling_state(modified_self).tag \in {"Underset"}}]

\* The labelling classified is self, not the modified clone.
allowed_labels_self_mut(self) ==
    [p \in PointIdx |->
        {label \in F4Points :
            partial_labelling_state(self).tag \in {"Underset", "Perfect"}}]

\* A label some point already carries is not accepted.
allowed_labels_fresh_mut(self) ==
    [p \in PointIdx |->
        {label \in F4Points :
            LET modified_self ==
                    [self EXCEPT !.labelling = [@ EXCEPT ![p] = label]]
            IN  /\ \A q \in PointIdx : self.labelling[q] # label
                /\ partial_labelling_state(modified_self).tag \in {"Underset", "Perfect"}}]

\* The value is the result: a function from the points to sets of labels.
\* modified_self is a clone, self is only read.
allowed_labels(self) ==
    [p \in PointIdx |->
        {label \in F4Points :
            LET modified_self ==
                    [self EXCEPT !.labelling = [@ EXCEPT ![p] = label]]
            IN  partial_labelling_state(modified_self).tag \in {"Underset", "Perfect"}}]

\* foursome.points().find(|p| labelling.get(p) == Some(label)).unwrap()
find_labelled(self, foursome, label) ==
    LET found == {p \in foursome : self.labelling[p] = label}
    IN  IF found = {} THEN Panic ELSE Ok(CHOOSE p \in found : \A q \in found : p <= q)

\* No swap is made.
swap_sides_mut(p) == identity

swap_sides(p) ==
    new_swap([side |-> "Left", pair |-> p], [side |-> "Right", pair |-> p])

\* for perm in &foursome_perms { ordered_sextet = ordered_sextet.permute(perm) }
RECURSIVE permute_each(_, _)
permute_each(foursomes, perms) ==
    IF perms = <<>> THEN foursomes
    ELSE permute_each(OrderedSextet_permute(foursomes, Head(perms)), Tail(perms))

\* for perm in foursome_perms.into_iter().rev() { permute_foursomes(&perm.inverse()) }
RECURSIVE undo_each(_, _)
undo_each(labelling, perms) ==
    IF perms = <<>> THEN labelling
    ELSE undo_each(permute_foursomes(labelling, inverse(perms[Len(perms)])),
                   SubSeq(perms, 1, Len(perms) - 1))

None == [tag |-> "None"]

Some(v) == [tag |-> "Some", value |-> v]

\* hexacode::Pair::points().find(|p| *p != pair && *p != third.pair).unwrap()
empty_pair_of(pair, third_pair) ==
    Pair_usize_to_point(
        CHOOSE i \in 0 .. (Pair_N - 1) :
           /\ Pair_usize_to_point(i) \notin {pair, third_pair}
           /\ \A j \in 0 .. (i - 1) : Pair_usize_to_point(j) \in {pair, third_pair})

\* The swaps of sides that bring the foursome h to the left of its pair.
swaps_to_left(h, empty_pair) ==
    IF h.side = "Right"
    THEN <<swap_sides(h.pair), swap_sides(empty_pair)>> ELSE <<>>

\* The middle and right pairs are exchanged.
arrange_pairs_mut(pair, third_pair, empty_pair) ==
    Hex_from_fn([h \in HexPoints |->
        CASE h.pair = "Left"   -> [side |-> h.side, pair |-> pair]
          [] h.pair = "Middle" -> [side |-> h.side, pair |-> empty_pair]
          [] h.pair = "Right"  -> [side |-> h.side, pair |-> third_pair]])

\* The permutation of the foursomes putting pair on the left, third.pair in
\* the middle and empty_pair on the right.
arrange_pairs(pair, third_pair, empty_pair) ==
    Hex_from_fn([h \in HexPoints |->
        CASE h.pair = "Left"   -> [side |-> h.side, pair |-> pair]
          [] h.pair = "Middle" -> [side |-> h.side, pair |-> third_pair]
          [] h.pair = "Right"  -> [side |-> h.side, pair |-> empty_pair]])

\* foursome_perms: the swaps for h1, the swaps for h4, then the inverse of
\* the permutation arranging the pairs.
collect_foursome_perms(h1, h4, empty_pair, arrange) ==
    swaps_to_left(h1, empty_pair) \o swaps_to_left(h4, empty_pair)
        \o <<inverse(arrange)>>

\* The end of complete_labelling: the completed labelling is scaled by
\* 1/(x+y), shifted by x on the left and right pairs, and the permutations
\* of the foursomes are undone.
restore_labelling(completed, x, unit, foursome_perms) ==
    IF completed.tag # "Ok" THEN Panic
    ELSE Some(undo_each(
             add_vector(scalar_mul(completed.value, unit),
                 [h \in HexPoints |->
                     IF h.pair \in {"Left", "Right"} THEN x ELSE "Zero"]),
             foursome_perms))

\* The body of complete_labelling once the foursomes and the four labelled
\* points are known.
complete_arranged(foursomes, foursome_perms, pts, x, z, unit) ==
    restore_labelling(
        complete_labelling(permute_each(foursomes, foursome_perms),
            pts[1], pts[2], pts[3], pts[4], F4_mul(z, unit)),
        x, unit, foursome_perms)

\* The arm PartialLabellingState::Perfect of complete_labelling.
complete_perfect(self, state) ==
    LET x == state.x
        y == state.y
        h1 == [side |-> state.side, pair |-> state.pair]
        h23 == [side |-> flip(state.side), pair |-> state.pair]
        h4 == state.third
        empty_pair == empty_pair_of(state.pair, h4.pair)
        os == ordered_sextet(self)
        found == <<find_labelled(self, get_foursome(self, h1), x),
                   find_labelled(self, get_foursome(self, h23), x),
                   find_labelled(self, get_foursome(self, h23), y),
                   find_labelled(self, get_foursome(self, h4), state.z)>>
        arrange == arrange_pairs(state.pair, h4.pair, empty_pair)
    IN  IF os.tag # "Ok" \/ arrange = Panic
           \/ \E i \in 1 .. 4 : found[i].tag # "Ok"
           \/ F4_add(x, y) = "Zero"
        THEN Panic
        ELSE complete_arranged(os.foursomes,
                 collect_foursome_perms(h1, h4, empty_pair, arrange),
                 [i \in 1 .. 4 |-> found[i].value],
                 x, state.z, F4_inverse(F4_add(x, y)))

\* match self.partial_labelling_state()
complete_matched(self, state) ==
    IF state.tag # "Perfect" THEN None ELSE complete_perfect(self, state)

State_complete_labelling(self) ==
    complete_matched(self, partial_labelling_state(self))

-----------------------------------------------------------------------------
(* Permutations of the 24 points *)

\* Point::points()
MOG_points == [i \in 1 .. MOGPoint_N |-> MOG_usize_to_point(i - 1)]

\* Labelled<Point, bool>::permute: component i is the component of the
\* index of apply_inverse(usize_to_point(i)).
Vector_permute(self, permutation) ==
    {i \in PointIdx :
        MOG_point_to_usize(apply_inverse(permutation, MOG_usize_to_point(i))) \in self}

\* any in place of all.
is_automorphism_mut(permutation) ==
    \E i \in DOMAIN basis : Vector_permute(basis[i], permutation) \in codewords

is_automorphism(permutation) ==
    \A i \in DOMAIN basis : Vector_permute(basis[i], permutation) \in codewords

\* The row taken to be the label plus One.
standard_labelling_to_completed_labelling_mut(completed_labels) ==
    LET foursomes == point_foursomes(completed_labels.sextet)
    IN  from_fn(MOG_points,
            [p \in MOGPoints |->
                [col |-> foursomes[MOG_point_to_usize(p)],
                 row |-> F4_add(completed_labels.labels[MOG_point_to_usize(p)], "One")]])

\* update: the permutation taking each point to the point of the grid whose
\* column is the point's foursome and whose row is the point's label.
standard_labelling_to_completed_labelling(completed_labels) ==
    LET foursomes == point_foursomes(completed_labels.sextet)
    IN  from_fn(MOG_points,
            [p \in MOGPoints |->
                [col |-> foursomes[MOG_point_to_usize(p)],
                 row |-> completed_labels.labels[MOG_point_to_usize(p)]]])

\* SextetStabilizer::default; foursome_permutation holds the indices.
SextetStabilizer_default ==
    [foursome_permutation |-> [i \in HexIdx |-> i],
     inner_permutations   |-> [i \in HexIdx |-> identity]]

standard_ordered_sextet_permutation(self) ==
    from_fn(MOG_points,
        [point \in MOGPoints |->
            LET col_idx == Hex_point_to_usize(point.col)
            IN  [col |-> Hex_usize_to_point(self.foursome_permutation[col_idx]),
                 row |-> apply(self.inner_permutations[col_idx], point.row)]])

\* The button "×ω" over all the foursomes
times_omega(self, iteration) ==
    [self EXCEPT !.inner_permutations =
        [i \in HexIdx |-> Mul(new_cycle(<<"One", "Alpha", "Beta">>), @[i], iteration)]]

\* The button "Conjugate" over all the foursomes
conjugate_all(self, iteration) ==
    [self EXCEPT !.inner_permutations =
        [i \in HexIdx |-> Mul(new_swap("Alpha", "Beta"), @[i], iteration)]]

\* The button "+1" of the foursome item
plus_one(self, item, iteration) ==
    [self EXCEPT !.inner_permutations[item] =
        Mul(new_swap("Alpha", "Beta"),
            Mul(new_swap("Zero", "One"), @, iteration), iteration)]

\* update: the permutation shown for the selected_permutation_type, with
\* the products that were formed to get it (lhs * rhs = ret).
\* completed_labels is the value of complete_labelling().
shown_permutation(completed_labels, type, stabilizer, iteration) ==
    IF completed_labels.tag # "Some" \/ type = "None" THEN None
    ELSE LET to_completed ==
                 standard_labelling_to_completed_labelling(completed_labels.value)
         IN  CASE type = "StandardToLabellingAut" ->
                    Some([permutation |-> to_completed, muls |-> <<>>])
               [] type = "LabellingToStandardAut" ->
                    Some([permutation |-> inverse(to_completed), muls |-> <<>>])
               [] type = "SextetStabilizer" ->
                    LET standard == standard_ordered_sextet_permutation(stabilizer)
                        first == Mul(to_completed, standard, iteration)
                        second == Mul(first, inverse(to_completed), iteration)
                    IN  Some([permutation |-> second,
                              muls |-> << [lhs |-> to_completed, rhs |-> standard,
                                           ret |-> first],
                                          [lhs |-> first, rhs |-> inverse(to_completed),
                                           ret |-> second] >>])

-----------------------------------------------------------------------------
(* The code library called on a selection of points *)

\* The selections are drawn from the points 0 .. MaxPoint of the grid.
MaxPoint == 10

Selections == SUBSET (0 .. MaxPoint)

NoCall == [fn |-> "none"]

\* No labelling editor is open.
NoState == [sextet |-> <<>>]

InitGolay ==
    /\ selected_points \in Selections
    /\ call = NoCall
    /\ app = NoState
    /\ selected_permutation = identity

CallCompleteOctad ==
    /\ call = NoCall
    /\ \E ret \in complete_octad_outcomes(selected_points) :
          call' = [fn |-> "complete_octad", ret |-> ret]
    /\ UNCHANGED <<selected_points, app, selected_permutation>>

CallCompleteSextet ==
    /\ call = NoCall
    /\ call' = [fn |-> "complete_sextet", ret |-> complete_sextet(selected_points)]
    /\ UNCHANGED <<selected_points, app, selected_permutation>>

CallNearestCodeword ==
    /\ call = NoCall
    /\ \E ret \in nearest_codeword_outcomes(selected_points) :
          call' = [fn |-> "nearest_codeword", ret |-> ret]
    /\ UNCHANGED <<selected_points, app, selected_permutation>>

NextGolay == CallCompleteOctad \/ CallCompleteSextet \/ CallNearestCodeword

SpecGolay == InitGolay /\ [][NextGolay]_vars

-----------------------------------------------------------------------------
(* The labelling editor: sextet_labelling::State and its update *)

\* State::from_foursome
State_from_foursome(vector) ==
    [sextet    |-> reverse(sort_unstable(complete_sextet(vector).value)),
     ordering  |-> [i \in HexIdx |-> i],
     labelling |-> [p \in PointIdx |-> "None"]]

\* The list of foursomes after the item at index from was dragged to index
\* to: the items between shift by one place.
dragged(ordering, from, to) ==
    [i \in HexIdx |->
        IF i = to THEN ordering[from]
        ELSE IF from < to /\ from <= i /\ i < to THEN ordering[i + 1]
        ELSE IF to < from /\ to < i /\ i <= from THEN ordering[i - 1]
        ELSE ordering[i]]

\* The editor is opened on one foursome; the labels are set on the points
\* 0 .. MaxLabelPoint, chosen among the labels of index 0 .. MaxLabel, and
\* the foursomes were reordered by at most one drag, of an item of index
\* 0 .. MaxDragFrom to an index 0 .. MaxDragTo.
MaxLabelPoint == 5

MaxLabel == 2

MaxDragFrom == 0

MaxDragTo == 2

LabelSeeds == {{0, 1, 2, 7}}

LabelPoints == 0 .. MaxLabelPoint

LabelChoices == {F4_usize_to_point(i) : i \in 0 .. MaxLabel}

InitLabel ==
    /\ selected_points \in LabelSeeds
    /\ call = NoCall
    /\ \E from \in 0 .. MaxDragFrom, to \in 0 .. MaxDragTo :
          LET opened == State_from_foursome(selected_points)
          IN  app = [opened EXCEPT !.ordering = dragged(@, from, to)]
    /\ selected_permutation = identity

\* F4SelectionResult::Point(label)
SetLabel ==
    /\ \E p \in LabelPoints, label \in LabelChoices :
          /\ app.labelling[p] # label
          /\ app' = [app EXCEPT !.labelling = [@ EXCEPT ![p] = label]]
    /\ call' = NoCall
    /\ UNCHANGED <<selected_points, selected_permutation>>

\* F4SelectionResult::Cross
RemoveLabel ==
    /\ \E p \in LabelPoints :
          /\ app.labelling[p] # "None"
          /\ app' = [app EXCEPT !.labelling = [@ EXCEPT ![p] = "None"]]
    /\ call' = NoCall
    /\ UNCHANGED <<selected_points, selected_permutation>>

CallPartialLabellingState ==
    /\ call = NoCall
    /\ call' = [fn |-> "partial_labelling_state", ret |-> partial_labelling_state(app)]
    /\ UNCHANGED <<selected_points, app, selected_permutation>>

CallAllowedLabels ==
    /\ call = NoCall
    /\ call' = [fn |-> "allowed_labels", ret |-> allowed_labels(app)]
    /\ UNCHANGED <<selected_points, app, selected_permutation>>

CallCompleteLabelling ==
    /\ call = NoCall
    /\ call' = [fn |-> "complete_labelling", ret |-> State_complete_labelling(app)]
    /\ UNCHANGED <<selected_points, app, selected_permutation>>

NextLabel ==
    \/ SetLabel
    \/ RemoveLabel
    \/ CallPartialLabellingState
    \/ CallAllowedLabels
    \/ CallCompleteLabelling

SpecLabel == InitLabel /\ [][NextLabel]_vars

-----------------------------------------------------------------------------
(* One labelling session, on all 24 points: Zero on a point of a foursome    *)
(* T1, Zero and then One on two points of its pair-mate T2, Alpha on a point *)
(* of a foursome of another pair, and the completion.  update classifies the *)
(* labelling every frame, so each step records the classification.           *)

\* The hexacode point of the foursome that point p lies in.
foursome_of(p) == CHOOSE h \in HexPoints : p \in get_foursome(app, h)

pair_mate(h) == [side |-> flip(h.side), pair |-> h.pair]

labelled(l) == {p \in PointIdx : app.labelling[p] = l}

classified(state) ==
    [fn |-> "partial_labelling_state", ret |-> partial_labelling_state(state)]

InitScenario ==
    /\ selected_points \in LabelSeeds
    /\ app = State_from_foursome(selected_points)
    /\ call = classified(app)
    /\ selected_permutation = identity

\* self.labelling.set(p, Some(label)), and the next frame's classification
Assign(p, label) ==
    /\ app' = [app EXCEPT !.labelling = [@ EXCEPT ![p] = label]]
    /\ call' = classified(app')
    /\ UNCHANGED <<selected_points, selected_permutation>>

AssignT1 ==
    /\ \A p \in PointIdx : app.labelling[p] = "None"
    /\ \E p \in PointIdx : Assign(p, "Zero")

AssignT2First ==
    /\ \E p1 \in PointIdx :
          /\ labelled("Zero") = {p1}
          /\ labelled("One") = {}
          /\ \E p2 \in get_foursome(app, pair_mate(foursome_of(p1))) : Assign(p2, "Zero")

AssignT2Second ==
    /\ Cardinality(labelled("Zero")) = 2
    /\ labelled("One") = {}
    /\ \E p2 \in labelled("Zero") :
          /\ labelled("Zero") \ {p2} # {}
          /\ foursome_of(p2) = pair_mate(foursome_of(CHOOSE p1 \in labelled("Zero") \ {p2} : TRUE))
          /\ \E p3 \in get_foursome(app, foursome_of(p2)) \ {p2} : Assign(p3, "One")

AssignThird ==
    /\ labelled("One") # {}
    /\ labelled("Alpha") = {}
    /\ \E p4 \in PointIdx :
          /\ foursome_of(p4).pair # foursome_of(CHOOSE p3 \in labelled("One") : TRUE).pair
          /\ Assign(p4, "Alpha")

CompleteScenario ==
    /\ call.fn = "partial_labelling_state"
    /\ labelled("Alpha") # {}
    /\ call' = [fn |-> "complete_labelling", ret |-> State_complete_labelling(app)]
    /\ UNCHANGED <<selected_points, app, selected_permutation>>

NextScenario ==
    \/ AssignT1
    \/ AssignT2First
    \/ AssignT2Second
    \/ AssignThird
    \/ CompleteScenario

SpecScenario == InitScenario /\ [][NextScenario]_vars

-----------------------------------------------------------------------------
(* From a completed labelling to a permutation, and the permutation edited   *)
(* in point_toggle.  The editor holds the four labels Zero, Zero, One, Alpha  *)
(* on points of 0 .. MaxSessionPoint; the drags are between the points       *)
(* 0 .. MaxDragPoint.                                                        *)

MaxSessionPoint == 4

MaxDragPoint == 1

SessionPoints == 0 .. MaxSessionPoint

DragPoints == {MOG_usize_to_point(i) : i \in 0 .. MaxDragPoint}

\* The orders in which the HashSets of Mul are taken to be iterated.
PointIterations == {MOG_points, reverse(MOG_points)}

F4_iteration == <<"Zero", "One", "Alpha", "Beta">>

PermutationTypes == {"StandardToLabellingAut", "LabellingToStandardAut", "SextetStabilizer"}

\* The stabilizer after no button, "×ω", "Conjugate", and "+1" on the first item.
StabilizerConfigs ==
    {SextetStabilizer_default,
     times_omega(SextetStabilizer_default, F4_iteration),
     conjugate_all(SextetStabilizer_default, F4_iteration),
     plus_one(SextetStabilizer_default, 0, F4_iteration)}

SessionLabellings ==
    {[p \in PointIdx |->
         IF p \in {p1, p2} THEN "Zero"
         ELSE IF p = p3 THEN "One"
         ELSE IF p = p4 THEN "Alpha" ELSE "None"] :
       p1 \in SessionPoints, p2 \in SessionPoints, p3 \in SessionPoints,
       p4 \in SessionPoints}

\* The editors opened on a seed whose labelling the session has made Perfect.
SessionEditors ==
    UNION {LET opened == State_from_foursome(seed)
           IN  {editor \in {[opened EXCEPT !.labelling = labelling] :
                               labelling \in SessionLabellings} :
                   partial_labelling_state(editor).tag = "Perfect"} : seed \in LabelSeeds}

InitPerm ==
    /\ app \in SessionEditors
    /\ selected_points = get_foursome(app, Hex_usize_to_point(0))
    /\ call = NoCall
    /\ selected_permutation = identity

\* What point_toggle::update computes of the permutation it shows
checked(fn, permutation, muls) ==
    [fn |-> fn, is_automorphism |-> is_automorphism(permutation), muls |-> muls]

\* The button "Select": point_toggle::State::new(Labelled::zero(), permutation)
Select ==
    /\ app # NoState
    /\ \E type \in PermutationTypes, stabilizer \in StabilizerConfigs,
          iteration \in PointIterations :
          \E shown \in {shown_permutation(State_complete_labelling(app), type,
                                          stabilizer, iteration)} :
              /\ shown.tag = "Some"
              /\ selected_permutation' = shown.value.permutation
              /\ call' = checked("select", selected_permutation', shown.value.muls)
    /\ app' = NoState
    /\ selected_points' = zero

\* The button "Invert"
Invert ==
    /\ app = NoState
    /\ ~Permutation_eq(selected_permutation, identity)
    /\ selected_permutation' = inverse(selected_permutation)
    /\ call' = checked("invert", selected_permutation', <<>>)
    /\ UNCHANGED <<selected_points, app>>

\* A drag from start_p to end_p, when it stops
Drag ==
    /\ app = NoState
    /\ \E start_p \in DragPoints, end_p \in DragPoints, iteration \in PointIterations :
          LET swap == new_swap(start_p, end_p)
          IN  /\ selected_permutation' = Mul(swap, selected_permutation, iteration)
              /\ call' = checked("drag", selected_permutation',
                                 << [lhs |-> swap, rhs |-> selected_permutation,
                                     ret |-> selected_permutation'] >>)
    /\ UNCHANGED <<selected_points, app>>

\* The button "Clear"
Clear ==
    /\ app = NoState
    /\ weight(selected_points) # 0 \/ ~Permutation_eq(selected_permutation, identity)
    /\ selected_points' = zero
    /\ selected_permutation' = identity
    /\ call' = checked("clear", selected_permutation', <<>>)
    /\ UNCHANGED app

NextPerm == Select \/ Invert \/ Drag \/ Clear

SpecPerm == InitPerm /\ [][NextPerm]_vars


-----------------------------------------------------------------------------
(* The classifier on its own: the editor is opened on one foursome, an item  *)
(* of index 0 .. MaxClassifyDragFrom of the list of foursomes was dragged to *)
(* the top or left where it was, and labels of index 0 .. MaxLabel were set  *)
(* on points among 0 .. MaxClassifyPoint; update classifies the labelling.   *)

MaxClassifyPoint == 6

MaxClassifyDragFrom == 4

ClassifyLabellings ==
    {[p \in PointIdx |-> IF p <= MaxClassifyPoint THEN set[p] ELSE "None"] :
        set \in [0 .. MaxClassifyPoint -> LabelChoices \cup {"None"}]}

InitClassify ==
    /\ selected_points \in LabelSeeds
    /\ call = NoCall
    /\ \E opened \in {State_from_foursome(selected_points)} :
          \E from \in 0 .. MaxClassifyDragFrom, labelling \in ClassifyLabellings :
             app = [opened EXCEPT !.ordering = dragged(@, from, 0),
                                  !.labelling = labelling]
    /\ selected_permutation = identity

Classify ==
    /\ call = NoCall
    /\ call' = classified(app)
    /\ UNCHANGED <<selected_points, app, selected_permutation>>

NextClassify == Classify

SpecClassify == InitClassify /\ [][NextClassify]_vars

-----------------------------------------------------------------------------
(* An editing session: the editor is opened on one foursome with no label    *)
(* set, an item of index 0 .. MaxClassifyDragFrom of the list of foursomes   *)
(* was dragged to the top, and from then on the user opens the label         *)
(* selector on a point among 0 .. MaxClassifyPoint and picks one of the      *)
(* labels of index 0 .. MaxLabel it shows, or the cross.                     *)

\* Every label is shown, allowed or not.
f4_selection_mut(include, include_cross) ==
    {[tag |-> "Point", label |-> label] : label \in F4Points}
        \cup (IF include_cross THEN {[tag |-> "Cross"]} ELSE {})

\* mog::f4_selection: the results the pointer can give, None left out: one
\* of the labels of include, or the cross if include_cross.
f4_selection(include, include_cross) ==
    {[tag |-> "Point", label |-> label] : label \in {l \in F4Points : l \in include}}
        \cup (IF include_cross THEN {[tag |-> "Cross"]} ELSE {})

InitEdit ==
    /\ selected_points \in LabelSeeds
    /\ \E opened \in {State_from_foursome(selected_points)} :
          \E from \in 0 .. MaxClassifyDragFrom :
             app = [opened EXCEPT !.ordering = dragged(@, from, 0)]
    /\ call = classified(app)
    /\ selected_permutation = identity

\* F4SelectionResult::Point(label) => self.labelling.set(p, Some(label)),
\* and the next frame's classification
EditSetLabel ==
    /\ \E allowed \in {allowed_labels(app)} :
          \E p \in 0 .. MaxClassifyPoint :
             \E result \in f4_selection(allowed[p], app.labelling[p] # "None") :
                /\ result.tag = "Point"
                /\ result.label \in LabelChoices
                /\ app' = [app EXCEPT !.labelling = [@ EXCEPT ![p] = result.label]]
    /\ call' = classified(app')
    /\ UNCHANGED <<selected_points, selected_permutation>>

\* F4SelectionResult::Cross => self.labelling.set(p, None), and the next
\* frame's classification
EditRemoveLabel ==
    /\ \E allowed \in {allowed_labels(app)} :
          \E p \in 0 .. MaxClassifyPoint :
             \E result \in f4_selection(allowed[p], app.labelling[p] # "None") :
                /\ result.tag = "Cross"
                /\ app' = [app EXCEPT !.labelling = [@ EXCEPT ![p] = "None"]]
    /\ call' = classified(app')
    /\ UNCHANGED <<selected_points, selected_permutation>>

NextEdit == EditSetLabel \/ EditRemoveLabel

SpecEdit == InitEdit /\ [][NextEdit]_vars

-----------------------------------------------------------------------------
(* BinaryGolayCode::complete_labelling on its own: the editor is opened on   *)
(* one of the foursomes of SeedFoursomes, an item of index                   *)
(* 0 .. MaxSeedDragFrom of the list of foursomes was dragged to the top, and *)
(* the labelling of its ordered sextet is completed from a point x of the    *)
(* first foursome, two points y, z of the second, a point w of the third and *)
(* a label alpha.                                                            *)

MaxSeedDragFrom == 2

SeedFoursomes == {{0, 1, 2, 7}, {0, 1, 2, 3}, {0, 6, 12, 18}}

InitSeed ==
    /\ selected_points \in SeedFoursomes
    /\ call = NoCall
    /\ \E opened \in {State_from_foursome(selected_points)} :
          \E from \in 0 .. MaxSeedDragFrom :
             app = [opened EXCEPT !.ordering = dragged(@, from, 0)]
    /\ selected_permutation = identity

CallSeedLabelling ==
    /\ call = NoCall
    /\ \E sextet \in {ordered_sextet(app)} :
          /\ sextet.tag = "Ok"
          /\ \E x \in sextet.foursomes[0], y \in sextet.foursomes[1],
                z \in sextet.foursomes[1], w \in sextet.foursomes[2],
                alpha \in F4Points :
                /\ y # z
                /\ call' = [fn |-> "BinaryGolayCode::complete_labelling",
                            x |-> x, y |-> y, z |-> z, w |-> w, alpha |-> alpha,
                            ret |-> complete_labelling(sextet.foursomes,
                                        x, y, z, w, alpha)]
    /\ UNCHANGED <<selected_points, app, selected_permutation>>

NextSeed == CallSeedLabelling

SpecSeed == InitSeed /\ [][NextSeed]_vars

-----------------------------------------------------------------------------
(* Ord for Vector on its own: two vectors of points among 0 .. MaxCmpPoint   *)
(* are compared, as sort_unstable compares the foursomes of a sextet.        *)

MaxCmpPoint == 6

InitOrder ==
    /\ selected_points \in SUBSET (0 .. MaxCmpPoint)
    /\ call = NoCall
    /\ app = NoState
    /\ selected_permutation = identity

CallCmp ==
    /\ call = NoCall
    /\ \E other \in SUBSET (0 .. MaxCmpPoint) :
          call' = [fn |-> "cmp", other |-> other,
                   ret |-> Vector_cmp(selected_points, other)]
    /\ UNCHANGED <<selected_points, app, selected_permutation>>

NextOrder == CallCmp

SpecOrder == InitOrder /\ [][NextOrder]_vars

-----------------------------------------------------------------------------
(* Permutation<F4Point>: a permutation is constructed, then inverted,        *)
(* multiplied, compared and split into cycles.  The lists given to new_cycle *)
(* have at most MaxCycleLen items.                                           *)

MaxCycleLen == 2

\* finite_field_4::Point::points()
F4_points == [i \in 1 .. F4Point_N |-> F4_usize_to_point(i - 1)]

\* The orders in which a HashSet or HashMap of F4Points is taken to be iterated.
F4_iterations ==
    {F4_iteration, reverse(F4_iteration), <<"Alpha", "Zero", "Beta", "One">>}

F4Functions == [F4Points -> F4Points]

CycleLists == UNION {[1 .. n -> F4Points] : n \in 0 .. MaxCycleLen}

\* The permutations the constructors return.
PermGenerators ==
    ({identity}
     \cup {new_swap(t1, t2) : t1 \in F4Points, t2 \in F4Points}
     \cup {new_cycle(ts) : ts \in CycleLists}
     \cup {from_fn(F4_points, f) : f \in F4Functions}) \ {Panic}

\* The labelling of the columns of the MOG by the row of each point.
standard_labelling ==
    [sextet |-> [h \in HexIdx |-> {i \in PointIdx : i % 6 = h}],
     labels |-> [i \in PointIdx |-> F4_usize_to_point(i \div 6)]]

InitAlgebra ==
    /\ selected_points = zero
    /\ call = NoCall
    /\ app = NoState
    /\ selected_permutation = identity

\* The permutation held after a constructor returned ret: the one held
\* before if the constructor panicked.
constructed(ret) == IF ret = Panic THEN selected_permutation ELSE ret

ConstructFromFn ==
    /\ call = NoCall
    /\ \E f \in F4Functions :
          \E ret \in {from_fn(F4_points, f)} :
              /\ call' = [fn |-> "from_fn", ret |-> ret]
              /\ selected_permutation' = constructed(ret)
    /\ UNCHANGED <<selected_points, app>>

ConstructNewCycle ==
    /\ call = NoCall
    /\ \E ts \in CycleLists :
          \E ret \in {new_cycle(ts)} :
              /\ call' = [fn |-> "new_cycle", ret |-> ret]
              /\ selected_permutation' = constructed(ret)
    /\ UNCHANGED <<selected_points, app>>

ConstructNewSwap ==
    /\ call = NoCall
    /\ \E t1 \in F4Points, t2 \in F4Points :
          \E ret \in {new_swap(t1, t2)} :
              /\ call' = [fn |-> "new_swap", ret |-> ret]
              /\ selected_permutation' = constructed(ret)
    /\ UNCHANGED <<selected_points, app>>

\* OrderedSextetLabelling::scalar_mul
CallScalarMul ==
    /\ call = NoCall
    /\ \E lambda \in F4Points :
          call' = [fn |-> "scalar_mul", lambda |-> lambda,
                   ret |-> scalar_mul(standard_labelling, lambda)]
    /\ UNCHANGED <<selected_points, app, selected_permutation>>

PermMul ==
    /\ \E q \in PermGenerators, iteration \in F4_iterations :
          /\ selected_permutation' = Mul(selected_permutation, q, iteration)
          /\ call' = [fn |-> "mul", ret |-> selected_permutation']
    /\ UNCHANGED <<selected_points, app>>

PermInverse ==
    /\ selected_permutation' = inverse(selected_permutation)
    /\ call' = [fn |-> "inverse", ret |-> selected_permutation']
    /\ UNCHANGED <<selected_points, app>>

PermEq ==
    /\ \E q \in PermGenerators :
          call' = [fn |-> "eq", rhs |-> q,
                   ret |-> Permutation_eq(selected_permutation, q)]
    /\ UNCHANGED <<selected_points, app, selected_permutation>>

PermDisjointCycles ==
    /\ \E iteration \in F4_iterations :
          call' = [fn |-> "disjoint_cycles",
                   ret |-> disjoint_cycles(selected_permutation, iteration)]
    /\ UNCHANGED <<selected_points, app, selected_permutation>>

NextAlgebra ==
    \/ ConstructFromFn
    \/ ConstructNewCycle
    \/ ConstructNewSwap
    \/ CallScalarMul
    \/ PermMul
    \/ PermInverse
    \/ PermEq
    \/ PermDisjointCycles

SpecAlgebra == InitAlgebra /\ [][NextAlgebra]_vars

-----------------------------------------------------------------------------
(* The field of four elements and the five Enumerated types: each call is    *)
(* made on every value; usize_to_point on the indices 0 .. MaxIndex.         *)

MaxIndex == 25

Sides == {"Left", "Right"}

Pairs == {"Left", "Middle", "Right"}

PointTypes == {"F4Point", "Side", "Pair", "HexacodePoint", "MOGPoint"}

\* The values of each type.
Enumerated_values(type) ==
    CASE type = "F4Point" -> F4Points
      [] type = "Side" -> Sides
      [] type = "Pair" -> Pairs
      [] type = "HexacodePoint" -> [side : Sides, pair : Pairs]
      [] type = "MOGPoint" -> [col : [side : Sides, pair : Pairs], row : F4Points]

\* Enumerated::N
Enumerated_N(type) ==
    CASE type = "F4Point" -> F4Point_N
      [] type = "Side" -> Side_N
      [] type = "Pair" -> Pair_N
      [] type = "HexacodePoint" -> HexacodePoint_N
      [] type = "MOGPoint" -> MOGPoint_N

\* Enumerated::usize_to_point
Enumerated_usize_to_point(type, i) ==
    CASE type = "F4Point" -> F4_usize_to_point_result(i)
      [] type = "Side" -> Side_usize_to_point_result(i)
      [] type = "Pair" -> Pair_usize_to_point_result(i)
      [] type = "HexacodePoint" -> Hex_usize_to_point_result(i)
      [] type = "MOGPoint" -> MOG_usize_to_point_result(i)

\* Enumerated::point_to_usize
Enumerated_point_to_usize(type, point) ==
    CASE type = "F4Point" -> F4_point_to_usize(point)
      [] type = "Side" -> Side_point_to_usize(point)
      [] type = "Pair" -> Pair_point_to_usize(point)
      [] type = "HexacodePoint" -> Hex_point_to_usize(point)
      [] type = "MOGPoint" -> MOG_point_to_usize(point)

InitField ==
    /\ selected_points = zero
    /\ call = NoCall
    /\ app = NoState
    /\ selected_permutation = identity

\* (a + b) + c
CallAdd ==
    /\ \E a \in F4Points, b \in F4Points, c \in F4Points :
          call' = [fn |-> "add", a |-> a, b |-> b, c |-> c,
                   sum |-> F4_add(a, b), ret |-> F4_add(F4_add(a, b), c)]
    /\ UNCHANGED <<selected_points, app, selected_permutation>>

\* (a * b) * c
CallMul ==
    /\ \E a \in F4Points, b \in F4Points, c \in F4Points :
          call' = [fn |-> "mul", a |-> a, b |-> b, c |-> c,
                   product |-> F4_mul(a, b), ret |-> F4_mul(F4_mul(a, b), c)]
    /\ UNCHANGED <<selected_points, app, selected_permutation>>

CallConjugate ==
    /\ \E a \in F4Points :
          call' = [fn |-> "conjugate", a |-> a, ret |-> F4_conjugate(a)]
    /\ UNCHANGED <<selected_points, app, selected_permutation>>

CallInverse ==
    /\ \E a \in F4Points :
          call' = [fn |-> "inverse", a |-> a, ret |-> F4_inverse(a)]
    /\ UNCHANGED <<selected_points, app, selected_permutation>>

CallUsizeToPoint ==
    /\ \E type \in PointTypes, i \in 0 .. MaxIndex :
          call' = [fn |-> "usize_to_point", type |-> type, i |-> i,
                   ret |-> Enumerated_usize_to_point(type, i)]
    /\ UNCHANGED <<selected_points, app, selected_permutation>>

CallPointToUsize ==
    /\ \E type \in PointTypes :
          \E point \in Enumerated_values(type) :
             call' = [fn |-> "point_to_usize", type |-> type, point |-> point,
                      ret |-> Enumerated_point_to_usize(type, point)]
    /\ UNCHANGED <<selected_points, app, selected_permutation>>

NextField ==
    \/ CallAdd
    \/ CallMul
    \/ CallConjugate
    \/ CallInverse
    \/ CallUsizeToPoint
    \/ CallPointToUsize

SpecField == InitField /\ [][NextField]_vars

-----------------------------------------------------------------------------
(* The transforms of OrderedSextetLabelling on their own.  app holds the     *)
(* labelling: the standard one, or one BinaryGolayCode::complete_labelling   *)
(* returned for the sextet of a foursome of LabelSeeds.  The vectors added   *)
(* are the xx00xx of State::complete_labelling and the vectors with one      *)
(* component One; the foursomes are permuted by a swap of the sides of a     *)
(* pair or by the cycle of the pairs.                                        *)

TransformVectors ==
    {[h \in HexPoints |-> IF h.pair \in {"Left", "Right"} THEN x ELSE "Zero"] :
        x \in F4Points}
    \cup {[h \in HexPoints |-> IF h = g THEN "One" ELSE "Zero"] : g \in HexPoints}

TransformPermutations ==
    {swap_sides(pair) : pair \in Pairs}
    \cup {Hex_from_fn([h \in HexPoints |->
              [side |-> h.side,
               pair |-> CASE h.pair = "Left" -> "Middle"
                          [] h.pair = "Middle" -> "Right"
                          [] h.pair = "Right" -> "Left"]])}

InitTransform ==
    /\ selected_points \in LabelSeeds
    /\ call = NoCall
    /\ \E sextet \in {ordered_sextet(State_from_foursome(selected_points))} :
          \/ app = standard_labelling
          \/ \E x \in sextet.foursomes[0], y \in sextet.foursomes[1],
                z \in sextet.foursomes[1], w \in sextet.foursomes[2],
                alpha \in F4Points :
                /\ y # z
                /\ app = complete_labelling(sextet.foursomes, x, y, z, w, alpha).value
    /\ selected_permutation = identity

TransformScalarMul ==
    /\ call = NoCall
    /\ \E lambda \in F4Points :
          call' = [fn |-> "OrderedSextetLabelling::scalar_mul", lambda |-> lambda,
                   ret |-> scalar_mul(app, lambda)]
    /\ UNCHANGED <<selected_points, app, selected_permutation>>

TransformAddVector ==
    /\ call = NoCall
    /\ \E vector \in TransformVectors :
          call' = [fn |-> "OrderedSextetLabelling::add_vector", vector |-> vector,
                   ret |-> add_vector(app, vector)]
    /\ UNCHANGED <<selected_points, app, selected_permutation>>

TransformConjugate ==
    /\ call = NoCall
    /\ call' = [fn |-> "OrderedSextetLabelling::conjugate",
                ret |-> Labelling_conjugate(app)]
    /\ UNCHANGED <<selected_points, app, selected_permutation>>

TransformPermuteFoursomes ==
    /\ call = NoCall
    /\ \E perm \in TransformPermutations :
          call' = [fn |-> "OrderedSextetLabelling::permute_foursomes", perm |-> perm,
                   ret |-> permute_foursomes(app, perm)]
    /\ UNCHANGED <<selected_points, app, selected_permutation>>

NextTransform ==
    \/ TransformScalarMul
    \/ TransformAddVector
    \/ TransformConjugate
    \/ TransformPermuteFoursomes

SpecTransform == InitTransform /\ [][NextTransform]_vars

-----------------------------------------------------------------------------
(* Properties of the code and of its calls *)

\* The orderings of six foursomes: State.ordering, a permutation of 0..6
Orderings ==
    {o \in [HexIdx -> HexIdx] : \A i, j \in HexIdx : o[i] = o[j] => i = j}

weight_count(w) == Cardinality({codeword \in codewords : weight(codeword) = w})

\* What BinaryGolayCode::default asserts of the span it built, and the exact
\* weight counts.
default_code_histogram ==
    /\ Len(basis) = 12
    /\ Cardinality(codewords) = 4096
    /\ weight_count(0) = 1
    /\ weight_count(8) = 759
    /\ weight_count(12) = 2576
    /\ weight_count(16) = 759
    /\ weight_count(24) = 1
    /\ \A codeword \in codewords : weight(codeword) \in {0, 8, 12, 16, 24}

\* C1: the code that answers a call, built by Default as the span of the 12
\* basis vectors, has 4096 distinct codewords (the 4096 coefficient subsets
\* collapse to a set of 4096, so no two agree), of which 1 has weight 0, 759
\* weight 8, 2576 weight 12, 759 weight 16 and 1 weight 24, and no other
\* weight occurs.
Thm_C1_WeightHistogram == call.fn # "none" => default_code_histogram

\* A call found a codeword of weight 8 of the span at distance 0.
Wit_C1_OctadFound ==
    /\ call.fn = "nearest_codeword"
    /\ call.ret.tag = "Unique"
    /\ call.ret.distance = 0
    /\ weight(call.ret.codeword) = 8

\* C2: on a vector of weight 5, complete_octad returns Ok(c) with c a
\* codeword of weight 8 containing the vector, and no other codeword has that
\* property (so no iteration order returns anything else, or panics).
Thm_C2_CompleteOctadUnique ==
    (call.fn = "complete_octad" /\ weight(selected_points) = 5) =>
        /\ call.ret.tag = "Ok"
        /\ call.ret.value \in codewords
        /\ weight(call.ret.value) = 8
        /\ selected_points \subseteq call.ret.value
        /\ \A codeword \in codewords :
              (weight(codeword) = 8 /\ selected_points \subseteq codeword)
                  => codeword = call.ret.value

Wit_C2_OctadCompleted ==
    /\ call.fn = "complete_octad"
    /\ weight(selected_points) = 5
    /\ call.ret.tag = "Ok"
    /\ weight(call.ret.value \ selected_points) = 3

\* C3: on a vector of weight 4, complete_sextet returns Ok(S) with S six
\* vectors of weight 4, pairwise disjoint, covering the 24 points; and
\* from_foursomes accepts S (sorted as State::from_foursome sorts it) under
\* every ordering.
Thm_C3_CompleteSextetPartition ==
    (call.fn = "complete_sextet" /\ weight(selected_points) = 4) =>
        /\ call.ret.tag = "Ok"
        /\ Cardinality(call.ret.value) = 6
        /\ \A t \in call.ret.value : weight(t) = 4
        /\ \A t, u \in call.ret.value : t # u => bitand(t, u) = {}
        /\ UNION call.ret.value = PointIdx
        /\ LET sextet == reverse(sort_unstable(call.ret.value))
           IN  \A ordering \in Orderings :
                  from_foursomes([h \in HexIdx |-> sextet[ordering[h] + 1]]).tag = "Ok"

Wit_C3_SextetCompleted ==
    /\ call.fn = "complete_sextet"
    /\ weight(selected_points) = 4
    /\ call.ret.tag = "Ok"
    /\ selected_points \in call.ret.value
    /\ \E t \in call.ret.value : t \cap (0 .. MaxPoint) = {}

distance_to(vector, codeword) == weight(add(vector, codeword))

\* C4: nearest_codeword returns either Unique{c, d} with d the distance to c,
\* d <= 3, c the only codeword within distance 3, d = 0 exactly for a
\* codeword, and no distance-4 codeword seen before; or Six with 6 distinct
\* codewords at distance exactly 4, no codeword being nearer, the scan having
\* collected exactly 6.
Thm_C4_NearestCodeword ==
    call.fn = "nearest_codeword" =>
        LET r == call.ret
            v == selected_points
        IN  \/ /\ r.tag = "Unique"
               /\ r.codeword \in codewords
               /\ r.distance = distance_to(v, r.codeword)
               /\ r.distance <= 3
               /\ \A codeword \in codewords :
                     distance_to(v, codeword) <= 4 => codeword = r.codeword
               /\ (r.distance = 0) <=> (v \in codewords)
               /\ r.dist_4_seen = {}
            \/ /\ r.tag = "Six"
               /\ r.dist_4_len = 6
               /\ Cardinality({r.first} \cup r.others) = 6
               /\ \A codeword \in {r.first} \cup r.others :
                     codeword \in codewords /\ distance_to(v, codeword) = 4
               /\ \A codeword \in codewords : distance_to(v, codeword) >= 4

Wit_C4_SixReturned ==
    /\ call.fn = "nearest_codeword"
    /\ call.ret.tag = "Six"
    /\ weight(selected_points) = 6

\* C14: complete_octad returns Err exactly on a vector of weight other than
\* 5 and complete_sextet exactly on a vector of weight other than 4; the
\* error is a value the call returns, no call panics.  (The code is borrowed
\* by shared reference: basis and codewords are the same before and after.)
Thm_C14_WrongWeightIsErr ==
    /\ call.fn = "complete_octad" =>
          /\ call.ret.tag \in {"Ok", "Err"}
          /\ call.ret.tag = "Err" <=> weight(selected_points) # 5
    /\ call.fn = "complete_sextet" =>
          /\ call.ret.tag \in {"Ok", "Err"}
          /\ call.ret.tag = "Err" <=> weight(selected_points) # 4

\* complete_sextet returned Err on a vector complete_octad accepts.
Wit_C14_SextetErr ==
    /\ call.fn = "complete_sextet"
    /\ call.ret.tag = "Err"
    /\ weight(selected_points) = 5

-----------------------------------------------------------------------------
(* Properties of the labelling editor *)

\* The labels set on the points of the foursome at hexacode point h.
labels_in(h) == {app.labelling[p] : p \in get_foursome(app, h)} \ {"None"}

labelled_points == {p \in PointIdx : app.labelling[p] # "None"}

no_duplicate_label ==
    \A h \in HexPoints : \A p, q \in get_foursome(app, h) :
        (p # q /\ app.labelling[p] # "None") => app.labelling[p] # app.labelling[q]

\* Three foursomes carry labels: T2 = (flip(side), pair) two of them, its
\* pair-mate T1 = (side, pair) one of these two, and third one label.
perfect_shape(pair, side, third) ==
    LET T1 == [side |-> side, pair |-> pair]
        T2 == [side |-> flip(side), pair |-> pair]
    IN  /\ no_duplicate_label
        /\ {h \in HexPoints : labels_in(h) # {}} = {T1, T2, third}
        /\ third \notin {T1, T2}
        /\ Cardinality(labels_in(T2)) = 2
        /\ Cardinality(labels_in(T1)) = 1
        /\ labels_in(T1) \subseteq labels_in(T2)
        /\ Cardinality(labels_in(third)) = 1

\* C5: for a labelling the classifier finds Perfect, complete_labelling
\* returns a full labelling in which every point the user labelled keeps its
\* label (the point of T1 labelled x, the points of T2 labelled x and y, the
\* point of third labelled z), and the four points of each of the six
\* foursomes carry the four labels Zero, One, Alpha, Beta.
Thm_C5_CompleteLabelling ==
    call.fn = "complete_labelling" =>
        LET state == partial_labelling_state(app)
        IN  state.tag = "Perfect" =>
              /\ call.ret.tag = "Some"
              /\ LET labels == call.ret.value.labels
                     T1 == get_foursome(app, [side |-> state.side, pair |-> state.pair])
                     T2 == get_foursome(app, [side |-> flip(state.side), pair |-> state.pair])
                     T3 == get_foursome(app, state.third)
                 IN  /\ \A p \in T1 : app.labelling[p] = state.x => labels[p] = state.x
                     /\ \A p \in T2 : app.labelling[p] = state.x => labels[p] = state.x
                     /\ \A p \in T2 : app.labelling[p] = state.y => labels[p] = state.y
                     /\ \A p \in T3 : app.labelling[p] = state.z => labels[p] = state.z
                     /\ \A p \in labelled_points : labels[p] = app.labelling[p]
                     /\ \A h \in HexPoints :
                           /\ Cardinality(get_foursome(app, h)) = 4
                           /\ {labels[p] : p \in get_foursome(app, h)} = F4Points

\* A completion was returned for a labelling whose T1 and third foursome lie
\* on the right of their pairs, with x + y other than One.
Wit_C5_Completed ==
    /\ call.fn = "complete_labelling"
    /\ call.ret.tag = "Some"
    /\ LET state == partial_labelling_state(app)
       IN  /\ state.tag = "Perfect"
           /\ state.side = "Right"
           /\ state.third.side = "Right"
           /\ F4_add(state.x, state.y) # "One"

\* C6: partial_labelling_state returns Perfect{x, y, z, pair, side, third}
\* exactly when no foursome repeats a label, exactly three foursomes carry
\* labels, T2 = (flip(side), pair) alone carries two labels {x, y}, T1 =
\* (side, pair) carries the single label x and third the single label z; a
\* Perfect result has x # y, third.pair # pair and exactly 4 labelled points.
Thm_C6_PerfectIff ==
    call.fn = "partial_labelling_state" =>
        LET ret == call.ret
        IN  /\ ret.tag = "Perfect" <=>
                  \E pair \in {h.pair : h \in HexPoints}, side \in {"Left", "Right"},
                     third \in HexPoints : perfect_shape(pair, side, third)
            /\ ret.tag = "Perfect" =>
                  /\ perfect_shape(ret.pair, ret.side, ret.third)
                  /\ labels_in([side |-> ret.side, pair |-> ret.pair]) = {ret.x}
                  /\ labels_in([side |-> flip(ret.side), pair |-> ret.pair]) = {ret.x, ret.y}
                  /\ labels_in(ret.third) = {ret.z}
                  /\ ret.x # ret.y
                  /\ ret.third.pair # ret.pair
                  /\ Cardinality(labelled_points) = 4
                  /\ F4_inverse(F4_add(ret.x, ret.y)) \in F4Points

Wit_C6_PerfectReturned ==
    /\ call.fn = "partial_labelling_state"
    /\ call.ret.tag = "Perfect"
    /\ call.ret.z = call.ret.y

\* C7: allowed_labels holds label l at point p exactly when the classifier,
\* applied to the labelling with p set to l and nothing else changed, returns
\* Underset or Perfect; the call leaves the labelling as it was.
Thm_C7_AllowedLabels ==
    [][(call.fn = "none" /\ call'.fn = "allowed_labels") =>
          /\ app' = app
          /\ \A p \in PointIdx, l \in F4Points :
                l \in call'.ret[p] <=>
                   partial_labelling_state(
                       [app EXCEPT !.labelling = [@ EXCEPT ![p] = l]]).tag
                     \in {"Underset", "Perfect"}]_vars

\* On a labelling with three labels set, the call allowed a fourth label that
\* makes it Perfect, refused another, and allowed a labelled point a new label.
Wit_C7_AllowedAndRefused ==
    /\ call.fn = "allowed_labels"
    /\ Cardinality(labelled_points) = 3
    /\ \E p \in PointIdx, l \in F4Points :
          /\ l \in call.ret[p]
          /\ partial_labelling_state(
                 [app EXCEPT !.labelling = [@ EXCEPT ![p] = l]]).tag = "Perfect"
    /\ \E p \in PointIdx, l \in F4Points : l \notin call.ret[p]
    /\ \E p \in labelled_points : call.ret[p] \ {app.labelling[p]} # {}

\* C8: in the session the classification is Underset for the empty labelling
\* and after each of the first three labels, Perfect with x = Zero, y = One,
\* z = Alpha after the fourth, and the completion then reads Zero, Zero, One,
\* Alpha at the four labelled points and gives the four points of every
\* foursome the four labels; whatever T1, the points and the third foursome.
Thm_C8_LabellingSession ==
    LET n == Cardinality(labelled_points)
    IN  /\ (call.fn = "partial_labelling_state" /\ n <= 3) => call.ret = Underset
        /\ (call.fn = "partial_labelling_state" /\ n = 4) =>
              /\ call.ret.tag = "Perfect"
              /\ call.ret.x = "Zero"
              /\ call.ret.y = "One"
              /\ call.ret.z = "Alpha"
              /\ labelled("Zero") \cap get_foursome(app,
                    [side |-> call.ret.side, pair |-> call.ret.pair]) # {}
              /\ labelled("Alpha") \subseteq get_foursome(app, call.ret.third)
        /\ call.fn = "complete_labelling" =>
              /\ call.ret.tag = "Some"
              /\ Cardinality(labelled("Zero")) = 2
              /\ Cardinality(labelled("One")) = 1
              /\ Cardinality(labelled("Alpha")) = 1
              /\ \A l \in {"Zero", "One", "Alpha"} :
                    \A p \in labelled(l) : call.ret.value.labels[p] = l
              /\ \A h \in HexPoints :
                    {call.ret.value.labels[p] : p \in get_foursome(app, h)} = F4Points

\* The session was completed with T1 on the right of the last pair and the
\* third foursome on the right of the first pair.
Wit_C8_SessionCompleted ==
    /\ call.fn = "complete_labelling"
    /\ call.ret.tag = "Some"
    /\ LET state == partial_labelling_state(app)
       IN  /\ state.tag = "Perfect"
           /\ state.side = "Right"
           /\ state.pair = "Right"
           /\ state.third = [side |-> "Right", pair |-> "Left"]

-----------------------------------------------------------------------------
(* Properties of the permutations *)

\* The indices of the points that the points of index i, i + 1, .. are taken to.
RECURSIVE images_from(_, _)
images_from(permutation, i) ==
    IF i >= MOGPoint_N THEN <<>>
    ELSE <<MOG_point_to_usize(apply(permutation, MOG_usize_to_point(i)))>>
             \o images_from(permutation, i + 1)

maps_codewords_to_codewords(permutation) ==
    LET images == images_from(permutation, 0)
    IN  \A codeword \in codewords : {images[i + 1] : i \in codeword} \in codewords

\* The permutations "To Standard Labelling" of the labellings of the session.
labelling_permutations ==
    {standard_labelling_to_completed_labelling(State_complete_labelling(editor).value) :
       editor \in {e \in SessionEditors : e.labelling[0] = "Zero" /\ e.labelling[3] = "Zero"}}

\* C9: is_automorphism(p) is true exactly when p takes every one of the 4096
\* codewords to a codeword; it is true of the identity; and when it is true
\* of p it is true of the inverse of p and of the product of p with another
\* permutation it is true of.
Thm_C9_IsAutomorphism ==
    call.fn \in {"select", "invert", "drag", "clear"} =>
        /\ call.is_automorphism <=> maps_codewords_to_codewords(selected_permutation)
        /\ is_automorphism(identity)
        /\ call.is_automorphism =>
              /\ is_automorphism(inverse(selected_permutation))
              /\ \A q \in labelling_permutations, iteration \in PointIterations :
                    is_automorphism(q) =>
                       /\ is_automorphism(Mul(selected_permutation, q, iteration))
                       /\ is_automorphism(Mul(q, selected_permutation, iteration))

\* A permutation moving points was accepted, and its product with an accepted
\* permutation is neither of the two nor the identity.
Wit_C9_Accepted ==
    /\ call.fn = "invert"
    /\ call.is_automorphism
    /\ ~Permutation_eq(selected_permutation, identity)
    /\ \E q \in labelling_permutations :
          /\ is_automorphism(q)
          /\ LET product == Mul(selected_permutation, q, MOG_points)
             IN  /\ ~Permutation_eq(product, identity)
                 /\ ~Permutation_eq(product, q)
                 /\ ~Permutation_eq(product, selected_permutation)

\* C10: (p * q).apply(x) = q.apply(p.apply(x)) for every product formed and
\* every point x, moved by both operands, by one of them or by neither.
Thm_C10_MulAppliesLeftFirst ==
    call.fn \in {"select", "drag"} =>
        \A i \in DOMAIN call.muls : \A x \in MOGPoints :
            apply(call.muls[i].ret, x) =
                apply(call.muls[i].rhs, apply(call.muls[i].lhs, x))

\* A product of a swap with a permutation that does not commute with it, with
\* a point moved by the swap only, one by the permutation only, one by both
\* and one by neither.
Wit_C10_Product ==
    /\ call.fn = "drag"
    /\ LET m == call.muls[1]
       IN  /\ \E x \in MOGPoints : apply(m.lhs, x) # x /\ apply(m.rhs, x) = x
           /\ \E x \in MOGPoints : apply(m.lhs, x) = x /\ apply(m.rhs, x) # x
           /\ \E x \in MOGPoints : apply(m.lhs, x) # x /\ apply(m.rhs, x) # x
           /\ \E x \in MOGPoints : apply(m.lhs, x) = x /\ apply(m.rhs, x) = x
           /\ \E x \in MOGPoints :
                 apply(m.rhs, apply(m.lhs, x)) # apply(m.lhs, apply(m.rhs, x))

-----------------------------------------------------------------------------
(* Properties of Permutation<F4Point> *)

\* p and q send every point to the same point.
same_mapping(p, q) == \A t \in F4Points : apply(p, t) = apply(q, t)

\* C11: p == q holds exactly when p and q send every point to the same
\* point, whatever constructors and products built them (so from_fn of the
\* identity function and new_cycle of a one-element list equal identity()).
Cex_C11_EqualityIsMapping ==
    call.fn = "eq" => (call.ret <=> same_mapping(selected_permutation, call.rhs))

\* C12: for the permutation p held, p.inverse().inverse() == p, p * p.inverse()
\* and p.inverse() * p fix every point, apply_inverse undoes apply, and
\* new_swap(a, b) == new_swap(b, a) exchanges a and b, fixes the other points
\* and is identity() when a == b.
Thm_C12_GroupLaws ==
    /\ Permutation_eq(inverse(inverse(selected_permutation)), selected_permutation)
    /\ \A iteration \in F4_iterations : \A t \in F4Points :
          /\ apply(Mul(selected_permutation, inverse(selected_permutation),
                       iteration), t) = t
          /\ apply(Mul(inverse(selected_permutation), selected_permutation,
                       iteration), t) = t
    /\ \A t \in F4Points :
          apply_inverse(selected_permutation, apply(selected_permutation, t)) = t
    /\ \A a \in F4Points : \A b \in F4Points :
          /\ Permutation_eq(new_swap(a, b), new_swap(b, a))
          /\ apply(new_swap(a, b), a) = b
          /\ apply(new_swap(a, b), b) = a
          /\ \A t \in F4Points \ {a, b} : apply(new_swap(a, b), t) = t
          /\ a = b => new_swap(a, b) = identity

\* The inverse was taken of a permutation that is not its own inverse.
Wit_C12_InverseTaken ==
    /\ call.fn = "inverse"
    /\ ~same_mapping(selected_permutation, inverse(selected_permutation))

\* The product of new_cycle(c) over the cycles c.
RECURSIVE compose_cycles(_, _)
compose_cycles(cycles, iteration) ==
    IF cycles = <<>> THEN identity
    ELSE Mul(new_cycle(Head(cycles)), compose_cycles(Tail(cycles), iteration),
             iteration)

\* The points that occur in the cycles.
cycle_points(cycles) ==
    UNION {{cycles[i][j] : j \in DOMAIN cycles[i]} : i \in DOMAIN cycles}

\* C13: disjoint_cycles ends and returns cycles of length >= 2, each element
\* mapped to the next and the last to the first, no point occurring twice,
\* the points that occur being the points moved, and the product of
\* new_cycle over the cycles has the mapping of the permutation.
Thm_C13_DisjointCycles ==
    call.fn = "disjoint_cycles" =>
        /\ call.ret.tag = "Ok"
        /\ \A i \in DOMAIN call.ret.value :
              /\ Len(call.ret.value[i]) >= 2
              /\ \A j \in DOMAIN call.ret.value[i] :
                    apply(selected_permutation, call.ret.value[i][j])
                        = call.ret.value[i][(j % Len(call.ret.value[i])) + 1]
              /\ \A k \in DOMAIN call.ret.value : \A j \in DOMAIN call.ret.value[i] :
                    \A l \in DOMAIN call.ret.value[k] :
                       call.ret.value[i][j] = call.ret.value[k][l] => i = k /\ j = l
        /\ cycle_points(call.ret.value)
               = {t \in F4Points : apply(selected_permutation, t) # t}
        /\ \A iteration \in F4_iterations :
              same_mapping(compose_cycles(call.ret.value, iteration),
                           selected_permutation)

\* The cycles were taken of a permutation that stores a fixed point and
\* moves other points.
Wit_C13_FixedPointOmitted ==
    /\ call.fn = "disjoint_cycles"
    /\ call.ret.tag = "Ok"
    /\ Len(call.ret.value) >= 1
    /\ \E t \in DOMAIN selected_permutation.right : selected_permutation.right[t] = t

\* C15: from_fn on a function that is not injective, new_cycle on a list
\* with a repeated element and scalar_mul by Zero return an error value to
\* the caller; none of them panics.
Cex_C15_ValidationReturnsError ==
    call.fn \in {"from_fn", "new_cycle", "scalar_mul"} => call.ret # Panic

-----------------------------------------------------------------------------
(* Properties of the field of four elements and of the Enumerated types *)

\* C16: add and mul are associative and commutative, mul distributes over
\* add, Zero is the identity of add and absorbs under mul, One is the identity
\* of mul, a + a = Zero, and One, Alpha, Beta form a cyclic group of order 3
\* under mul (Alpha * Alpha = Beta, Alpha * Beta = One).
Thm_C16_FieldLaws ==
    /\ call.fn = "add" =>
          /\ call.ret = F4_add(call.a, F4_add(call.b, call.c))
          /\ call.sum = F4_add(call.b, call.a)
          /\ F4_add(call.a, "Zero") = call.a
          /\ F4_add("Zero", call.a) = call.a
          /\ F4_add(call.a, call.a) = "Zero"
    /\ call.fn = "mul" =>
          /\ call.ret = F4_mul(call.a, F4_mul(call.b, call.c))
          /\ call.product = F4_mul(call.b, call.a)
          /\ F4_mul(call.a, F4_add(call.b, call.c))
                = F4_add(call.product, F4_mul(call.a, call.c))
          /\ F4_mul(F4_add(call.b, call.c), call.a)
                = F4_add(F4_mul(call.b, call.a), F4_mul(call.c, call.a))
          /\ F4_mul(call.a, "Zero") = "Zero"
          /\ F4_mul("Zero", call.a) = "Zero"
          /\ F4_mul(call.a, "One") = call.a
          /\ F4_mul("One", call.a) = call.a
          /\ (call.a # "Zero" /\ call.b # "Zero") => call.product # "Zero"
          /\ call.a # "Zero" => F4_mul(F4_mul(call.a, call.a), call.a) = "One"
          /\ (call.a = "Alpha" /\ call.b = "Alpha") => call.product = "Beta"
          /\ (call.a = "Alpha" /\ call.b = "Beta") => call.product = "One"

\* Alpha cubed was computed.
Wit_C16_AlphaCubed ==
    /\ call.fn = "mul"
    /\ call.a = "Alpha" /\ call.b = "Alpha" /\ call.c = "Alpha"
    /\ call.product = "Beta"
    /\ call.ret = "One"

\* C17: inverse returns Some(b) with a * b = One for a nonzero a and None for
\* Zero; conjugate fixes Zero and One, exchanges Alpha and Beta, undoes
\* itself and preserves add and mul.
Thm_C17_InverseAndConjugate ==
    /\ call.fn = "inverse" =>
          IF call.a = "Zero" THEN call.ret = "None"
          ELSE call.ret \in F4Points /\ F4_mul(call.a, call.ret) = "One"
    /\ call.fn = "conjugate" =>
          /\ call.a \in {"Zero", "One"} => call.ret = call.a
          /\ call.a = "Alpha" => call.ret = "Beta"
          /\ call.a = "Beta" => call.ret = "Alpha"
          /\ F4_conjugate(call.ret) = call.a
          /\ \A b \in F4Points :
                /\ F4_conjugate(F4_add(call.a, b)) = F4_add(call.ret, F4_conjugate(b))
                /\ F4_conjugate(F4_mul(call.a, b)) = F4_mul(call.ret, F4_conjugate(b))

\* The inverse of Zero was asked for.
Wit_C17_NoInverseOfZero ==
    call.fn = "inverse" /\ call.a = "Zero" /\ call.ret = "None"

\* C18: for each of the five types, usize_to_point(i) is Ok of a value whose
\* point_to_usize is i when i < N and Err when i >= N; usize_to_point of
\* point_to_usize(p) is Ok(p), with point_to_usize(p) < N; the MOG index is
\* the column index + 6 * the row index and the hexacode index the side
\* index + 2 * the pair index.
Thm_C18_EnumeratedBijection ==
    /\ call.fn = "usize_to_point" =>
          IF call.i < Enumerated_N(call.type)
          THEN /\ call.ret.tag = "Ok"
               /\ call.ret.value \in Enumerated_values(call.type)
               /\ Enumerated_point_to_usize(call.type, call.ret.value) = call.i
          ELSE call.ret = Err
    /\ call.fn = "point_to_usize" =>
          /\ call.ret \in 0 .. (Enumerated_N(call.type) - 1)
          /\ Enumerated_usize_to_point(call.type, call.ret) = Ok(call.point)
          /\ call.type = "MOGPoint" =>
                call.ret = Enumerated_point_to_usize("HexacodePoint", call.point.col)
                           + 6 * Enumerated_point_to_usize("F4Point", call.point.row)
          /\ call.type = "HexacodePoint" =>
                call.ret = Enumerated_point_to_usize("Side", call.point.side)
                           + 2 * Enumerated_point_to_usize("Pair", call.point.pair)

\* usize_to_point was refused the index N of the MOG points.
Wit_C18_IndexRefused ==
    /\ call.fn = "usize_to_point"
    /\ call.type = "MOGPoint"
    /\ call.i = MOGPoint_N
    /\ call.ret = Err

-----------------------------------------------------------------------------
(* Properties of the classifier *)

\* The labelled points of the foursome at hexacode point h.
labelled_in(h) == {p \in get_foursome(app, h) : app.labelling[p] # "None"}

\* The foursomes with exactly two labels, and those with a label.
with_two_labels == {h \in HexPoints : Cardinality(labels_in(h)) = 2}

with_a_label == {h \in HexPoints : labels_in(h) # {}}

\* The seven cases of Overset.
same_label_twice ==
    \E h \in HexPoints : Cardinality(labelled_in(h)) > Cardinality(labels_in(h))

three_labels == \E h \in HexPoints : Cardinality(labels_in(h)) >= 3

two_with_two_labels == Cardinality(with_two_labels) >= 2

four_labelled == Cardinality(with_a_label) >= 4

mate_label_foreign ==
    \E T2 \in HexPoints :
        /\ with_two_labels = {T2}
        /\ labels_in(pair_mate(T2)) # {}
        /\ ~(labels_in(pair_mate(T2)) \subseteq labels_in(T2))

mate_unlabelled ==
    \E T2 \in HexPoints :
        /\ with_two_labels = {T2}
        /\ Cardinality(with_a_label) = 3
        /\ labels_in(pair_mate(T2)) = {}

three_pairs ==
    /\ with_two_labels = {}
    /\ Cardinality(with_a_label) = 3
    /\ Cardinality({h.pair : h \in with_a_label}) = 3

\* C19: partial_labelling_state returns Overset exactly when (1) a foursome
\* has a label on two points, (2) a foursome has 3 or more labels, (3) two
\* or more foursomes have 2 labels, (4) four or more foursomes are labelled,
\* (5) the only foursome with 2 labels has a pair-mate labelled with another
\* label, (6) the only foursome with 2 labels has an unlabelled pair-mate and
\* three foursomes are labelled, or (7) no foursome has 2 labels and three
\* foursomes of three pairs are labelled; otherwise it returns Perfect or
\* Underset.
Thm_C19_OversetIff ==
    call.fn = "partial_labelling_state" =>
        /\ call.ret.tag \in {"Overset", "Perfect", "Underset"}
        /\ call.ret.tag = "Overset" <=>
              \/ same_label_twice
              \/ three_labels
              \/ two_with_two_labels
              \/ four_labelled
              \/ mate_label_foreign
              \/ mate_unlabelled
              \/ three_pairs

\* Overset was returned for two foursomes with two labels each, none of the
\* other cases holding.
Wit_C19_TwoWithTwoLabels ==
    /\ call.fn = "partial_labelling_state"
    /\ call.ret.tag = "Overset"
    /\ two_with_two_labels
    /\ ~same_label_twice /\ ~three_labels /\ ~four_labelled

-----------------------------------------------------------------------------
(* Properties of the permutation of a completed labelling *)

\* The permutation update builds from the labelling complete_labelling
\* returned.
completed_permutation ==
    standard_labelling_to_completed_labelling(call.ret.value)

\* C20: for every Perfect labelling, the map sending each point to the point
\* of the grid whose column is its foursome and whose row is its completed
\* label is a bijection of the 24 points (from_fn does not panic), and
\* is_automorphism accepts it and its inverse.
Thm_C20_CompletedIsAutomorphism ==
    call.fn = "complete_labelling" =>
        (partial_labelling_state(app).tag = "Perfect" =>
            /\ call.ret.tag = "Some"
            /\ completed_permutation # Panic
            /\ {apply(completed_permutation, point) : point \in MOGPoints} = MOGPoints
            /\ is_automorphism(completed_permutation)
            /\ is_automorphism(inverse(completed_permutation)))

\* The permutation was built from a completion with x + y other than One,
\* and it moves the points of the first column.
Wit_C20_PermutationBuilt ==
    /\ call.fn = "complete_labelling"
    /\ call.ret.tag = "Some"
    /\ F4_add(partial_labelling_state(app).x, partial_labelling_state(app).y) # "One"
    /\ \E point \in MOGPoints :
          /\ point.col = Hex_usize_to_point(0)
          /\ apply(completed_permutation, point) # point

-----------------------------------------------------------------------------
(* Properties of the editing session *)

\* The labelling with the label of p removed.
without_label(self, p) == [self EXCEPT !.labelling = [@ EXCEPT ![p] = "None"]]

\* C21: with the ordering of the foursomes fixed, after any sequence of
\* settings of a label the selector offers (on a labelled point too) and of
\* removals, the labelling is never Overset, and removing any one label of
\* it does not give an Overset labelling.
Thm_C21_NeverOverset ==
    /\ call.ret.tag # "Overset"
    /\ partial_labelling_state(app).tag # "Overset"
    /\ \A p \in PointIdx :
          app.labelling[p] # "None" =>
              partial_labelling_state(without_label(app, p)).tag # "Overset"

\* Three labels are set after an edit, the labelling is Underset, and one
\* more label would make it Perfect.
Wit_C21_LabelRemoved ==
    /\ call.ret.tag = "Underset"
    /\ Cardinality({p \in PointIdx : app.labelling[p] # "None"}) = 3
    /\ \E p \in PointIdx, label \in F4Points :
          /\ app.labelling[p] = "None"
          /\ partial_labelling_state(
                 [app EXCEPT !.labelling = [@ EXCEPT ![p] = label]]).tag = "Perfect"

\* The points of the labelling that carry no label.
unlabelled(self) == {p \in PointIdx : self.labelling[p] = "None"}

\* The first unlabelled point of each foursome.
first_unlabelled(self) ==
    {p \in unlabelled(self) :
        \A q \in unlabelled(self) :
            (\E h \in HexPoints : {p, q} \subseteq get_foursome(self, h)) => p <= q}

\* Perfect can be reached from self by at most n assignments, each to the
\* first unlabelled point of a foursome and of a label allowed_labels holds
\* for it at the time.
RECURSIVE can_complete(_, _)
can_complete(self, n) ==
    \/ partial_labelling_state(self).tag = "Perfect"
    \/ /\ n > 0
       /\ \E p \in first_unlabelled(self) :
             \E label \in allowed_labels(self)[p] :
                can_complete([self EXCEPT !.labelling = [@ EXCEPT ![p] = label]], n - 1)

\* C22: from every Underset labelling at most 4 assignments, each to an
\* unlabelled point (the first one of any of the six foursomes) and of a
\* label allowed_labels holds for it at the time, lead to a Perfect
\* labelling; some unlabelled point has a label allowed.
Thm_C22_NoDeadEnd ==
    call.ret.tag = "Underset" =>
        /\ can_complete(app, 4)
        /\ \E p \in unlabelled(app) : allowed_labels(app)[p] # {}

\* An Underset labelling with one label in each of three foursomes, two of
\* them the two foursomes of a pair with different labels.
Wit_C22_ThreeSingles ==
    /\ call.ret.tag = "Underset"
    /\ Cardinality(PointIdx \ unlabelled(app)) = 3
    /\ \E p \in PointIdx, q \in PointIdx :
          /\ app.labelling[p] \notin {"None", app.labelling[q]}
          /\ app.labelling[q] # "None"
          /\ foursome_of(q) = pair_mate(foursome_of(p))

\* C23: when the labelling is Perfect, 4 points are labelled, allowed_labels
\* holds no label for any of the 20 unlabelled points, and for each labelled
\* point it holds the label the point carries.
Thm_C23_PerfectIsMaximal ==
    call.ret.tag = "Perfect" =>
        /\ Cardinality(unlabelled(app)) = 20
        /\ \A p \in unlabelled(app) : allowed_labels(app)[p] = {}
        /\ \A p \in PointIdx \ unlabelled(app) :
              app.labelling[p] \in allowed_labels(app)[p]

\* A Perfect labelling in which a labelled point could carry another label
\* and a labelled point could carry no other.
Wit_C23_PerfectRelabel ==
    /\ call.ret.tag = "Perfect"
    /\ \E p \in PointIdx \ unlabelled(app) : Cardinality(allowed_labels(app)[p]) >= 2
    /\ \E p \in PointIdx \ unlabelled(app) : allowed_labels(app)[p] = {app.labelling[p]}

-----------------------------------------------------------------------------
(* Properties of BinaryGolayCode::complete_labelling *)

\* The foursomes of the ordered sextet the editor holds.
seed_sextet == ordered_sextet(app).foursomes

\* The octad through (T1 \ {x}) U {z, w} of the call.
seed_octad ==
    complete_octad_unwrap(
        from_points({p \in seed_sextet[0] : p # call.x} \cup {call.z, call.w}))

\* final_four of the call: t4 and t5 keep the labels they have when it is
\* taken.
seed_final_four ==
    {p \in seed_sextet[5] : call.ret.value.labels[p] # "Zero"} \cup
    {p \in seed_sextet[4] : call.ret.value.labels[p] = "Zero"}

\* C24: for every x of the first foursome, y # z of the second, w of the
\* third and every alpha, complete_labelling returns without a panic (so
\* every complete_octad inside it got a vector of weight 5), its first octad
\* has one point in each of the foursomes 2 .. 5, final_four has 4 points,
\* x, y, z, w are labelled Zero, Zero, One, alpha, and each foursome carries
\* the four labels.
Thm_C24_SeedLabelling ==
    call.fn = "BinaryGolayCode::complete_labelling" =>
        /\ call.ret.tag = "Ok"
        /\ seed_octad.tag = "Ok"
        /\ \A i \in 2 .. 5 : weight(bitand(seed_octad.value, seed_sextet[i])) = 1
        /\ Cardinality(seed_final_four) = 4
        /\ call.ret.value.sextet = seed_sextet
        /\ call.ret.value.labels[call.x] = "Zero"
        /\ call.ret.value.labels[call.y] = "Zero"
        /\ call.ret.value.labels[call.z] = "One"
        /\ call.ret.value.labels[call.w] = call.alpha
        /\ \A h \in HexIdx :
              {call.ret.value.labels[p] : p \in seed_sextet[h]} = F4Points

\* A call with alpha = Beta on a sextet whose foursomes were reordered.
Wit_C24_SeedBeta ==
    /\ call.fn = "BinaryGolayCode::complete_labelling"
    /\ call.alpha = "Beta"
    /\ call.ret.tag = "Ok"
    /\ app.ordering # State_from_foursome(selected_points).ordering

-----------------------------------------------------------------------------
(* Properties of the permutations of the foursomes in complete_labelling *)

\* foursome_perms of complete_labelling for the Perfect result state.
perfect_perms(state) ==
    collect_foursome_perms([side |-> state.side, pair |-> state.pair], state.third,
        empty_pair_of(state.pair, state.third.pair),
        arrange_pairs(state.pair, state.third.pair,
            empty_pair_of(state.pair, state.third.pair)))

\* The ordered sextet after the loop applying foursome_perms.
arranged_sextet(self, state) ==
    permute_each(ordered_sextet(self).foursomes, perfect_perms(state))

\* The three foursomes of the arranged sextet are T1, T2 and the third one.
arranged_as_asserted(self, state) ==
    /\ arranged_sextet(self, state)[
           Hex_point_to_usize([side |-> "Left", pair |-> "Left"])]
         = get_foursome(self, [side |-> state.side, pair |-> state.pair])
    /\ arranged_sextet(self, state)[
           Hex_point_to_usize([side |-> "Right", pair |-> "Left"])]
         = get_foursome(self, [side |-> flip(state.side), pair |-> state.pair])
    /\ arranged_sextet(self, state)[
           Hex_point_to_usize([side |-> "Left", pair |-> "Middle"])]
         = get_foursome(self, state.third)

\* C25: for a Perfect labelling, the ordered sextet permuted by
\* foursome_perms in order has T1 at (Left, Left), T2 at (Right, Left) and
\* the third foursome at (Left, Middle); the labelling returned has every
\* point in the foursome of the same index as in the ordered sextet of the
\* editor, and undoing the permutations on the arranged sextet leaves the
\* labels as they are.
Thm_C25_ArrangeAndUndo ==
    (call.fn = "complete_labelling" /\ partial_labelling_state(app).tag = "Perfect") =>
        /\ arranged_as_asserted(app, partial_labelling_state(app))
        /\ call.ret.tag = "Some"
        /\ \A h \in HexIdx :
              call.ret.value.sextet[h] = get_foursome(app, Hex_usize_to_point(h))
        /\ undo_each([sextet |-> arranged_sextet(app, partial_labelling_state(app)),
                      labels |-> call.ret.value.labels],
                     perfect_perms(partial_labelling_state(app)))
             = call.ret.value

\* A completion with T1 on the right of the right pair and the third
\* foursome on the right of the left pair: five permutations are applied.
Wit_C25_FivePermutations ==
    /\ call.fn = "complete_labelling"
    /\ call.ret.tag = "Some"
    /\ partial_labelling_state(app).side = "Right"
    /\ partial_labelling_state(app).pair = "Right"
    /\ partial_labelling_state(app).third = [side |-> "Right", pair |-> "Left"]
    /\ Len(perfect_perms(partial_labelling_state(app))) = 5

-----------------------------------------------------------------------------
(* Properties of the sextet of the six nearest codewords *)

\* The six sums of the selection and a codeword of the array returned.
six_offsets ==
    {add(selected_points, codeword) :
        codeword \in {call.ret.first} \cup call.ret.others}

\* C26: when nearest_codeword returns Six, the six sums of the selection and
\* a codeword of the array have weight 4, are pairwise disjoint and cover
\* the 24 points, and complete_sextet on the sum with the first codeword
\* returns the set of the six sums, whichever codeword is first (from_foursome
\* sorts that set, so the sextet opened is the same).
Thm_C26_SixGiveOneSextet ==
    (call.fn = "nearest_codeword" /\ call.ret.tag = "Six") =>
        /\ Cardinality(six_offsets) = 6
        /\ \A offset \in six_offsets : weight(offset) = 4
        /\ \A a \in six_offsets, b \in six_offsets :
              a # b => weight(bitand(a, b)) = 0
        /\ UNION six_offsets = PointIdx
        /\ complete_sextet(add(selected_points, call.ret.first)) = Ok(six_offsets)

\* Six was returned on a selection of 8 points, and the first codeword is
\* not the empty one.
Wit_C26_SixOnEight ==
    /\ call.fn = "nearest_codeword"
    /\ call.ret.tag = "Six"
    /\ weight(selected_points) = 8
    /\ call.ret.first # zero

-----------------------------------------------------------------------------
(* Properties of the two maps of a Permutation *)

\* right and left are inverse to each other and the keys of right are its
\* values.
maps_consistent(p) ==
    /\ \A a \in DOMAIN p.right :
          p.right[a] \in DOMAIN p.left /\ p.left[p.right[a]] = a
    /\ \A b \in DOMAIN p.left :
          p.left[b] \in DOMAIN p.right /\ p.right[p.left[b]] = b
    /\ {p.right[a] : a \in DOMAIN p.right} = DOMAIN p.right

\* C27: the permutation held, built by identity, new_swap, new_cycle,
\* from_fn, inverse or a product, has right and left inverse to each other
\* with the keys of right equal to its values, and no key of right is mapped
\* to itself.
Cex_C27_MovedPointsOnly ==
    /\ maps_consistent(selected_permutation)
    /\ \A a \in DOMAIN selected_permutation.right :
          selected_permutation.right[a] # a

-----------------------------------------------------------------------------
(* Properties of the order on the vectors *)

\* The k-th point of the list cmp builds, k = 1 .. 24: the columns in the
\* order of their index, and in each column the rows in the order of theirs.
cmp_listing(k) ==
    MOG_point_to_usize([col |-> Hex_usize_to_point((k - 1) \div F4Point_N),
                        row |-> F4_usize_to_point((k - 1) % F4Point_N)])

\* a is before b in the lexicographic order of the membership bits read in
\* the order listing, false before true.
lex_less(a, b, listing) ==
    \E k \in DOMAIN listing :
       /\ \A j \in 1 .. (k - 1) : (listing[j] \in a) <=> (listing[j] \in b)
       /\ listing[k] \notin a
       /\ listing[k] \in b

\* The Ordering that lex_less gives.
lex_cmp(a, b, listing) ==
    IF a = b THEN "Equal" ELSE IF lex_less(a, b, listing) THEN "Less" ELSE "Greater"

\* C28, as the code has it: cmp is the lexicographic order of the
\* membership bits read column by column (the point of column c and row r at
\* position 4 * c + r), false before true, the first position that differs
\* deciding; it is Equal on equal vectors only.
Thm_C28_ColumnMajorOrder ==
    call.fn = "cmp" =>
        call.ret = lex_cmp(selected_points, call.other,
                           [k \in 1 .. MOGPoint_N |-> cmp_listing(k)])

\* C28, as stated: cmp is the lexicographic order of the membership bits at
\* the indices 0, 1, ..., 23 (index = col + 6 * row), false before true.
Cex_C28_CanonicalIndexOrder ==
    call.fn = "cmp" =>
        call.ret = lex_cmp(selected_points, call.other,
                           [k \in 1 .. MOGPoint_N |-> k - 1])

\* Two vectors that cmp orders Less and the order of the indices Greater.
Wit_C28_OrdersDisagree ==
    /\ call.fn = "cmp"
    /\ call.ret = "Less"
    /\ lex_cmp(selected_points, call.other,
               [k \in 1 .. MOGPoint_N |-> k - 1]) = "Greater"

-----------------------------------------------------------------------------
(* Properties of the transforms of OrderedSextetLabelling *)

\* Each of the six foursomes of the labelling carries the four labels, one
\* on each of its four points.
labels_bijective(labelling) ==
    \A h \in HexIdx :
       /\ Cardinality(labelling.sextet[h]) = 4
       /\ {labelling.labels[p] : p \in labelling.sextet[h]} = F4Points

\* C29: on a labelling whose foursomes each carry the four labels, the
\* labelling returned by scalar_mul (lambda not Zero), add_vector, conjugate
\* and permute_foursomes has the same property; scalar_mul gives the labels
\* v with v * lambda the old label, add_vector adds to each label the
\* component of the vector at the foursome of the point, conjugate squares
\* each label, and permute_foursomes leaves the labels, moving the foursome
\* at h to perm(h).
Thm_C29_TransformsKeepBijection ==
    /\ labels_bijective(app)
    /\ (call.fn = "OrderedSextetLabelling::scalar_mul" /\ call.lambda # "Zero") =>
          /\ labels_bijective(call.ret)
          /\ call.ret.sextet = app.sextet
          /\ \A p \in PointIdx :
                /\ F4_mul(call.ret.labels[p], call.lambda) = app.labels[p]
                /\ call.ret.labels[p] = F4_mul(app.labels[p], F4_inverse(call.lambda))
    /\ call.fn = "OrderedSextetLabelling::add_vector" =>
          /\ labels_bijective(call.ret)
          /\ call.ret.sextet = app.sextet
          /\ \A h \in HexIdx : \A p \in app.sextet[h] :
                call.ret.labels[p]
                  = F4_add(app.labels[p], call.vector[Hex_usize_to_point(h)])
    /\ call.fn = "OrderedSextetLabelling::conjugate" =>
          /\ labels_bijective(call.ret)
          /\ call.ret.sextet = app.sextet
          /\ \A p \in PointIdx :
                call.ret.labels[p] = F4_mul(app.labels[p], app.labels[p])
    /\ call.fn = "OrderedSextetLabelling::permute_foursomes" =>
          /\ labels_bijective(call.ret)
          /\ call.ret.labels = app.labels
          /\ \A h \in HexPoints :
                call.ret.sextet[Hex_point_to_usize(apply(call.perm, h))]
                  = app.sextet[Hex_point_to_usize(h)]

\* A vector with different components on the two foursomes of a pair was
\* added to a labelling that is not the standard one.
Wit_C29_VectorAdded ==
    /\ call.fn = "OrderedSextetLabelling::add_vector"
    /\ app # standard_labelling
    /\ \E h \in HexPoints : call.vector[h] # call.vector[pair_mate(h)]
    /\ labels_bijective(call.ret)

-----------------------------------------------------------------------------
(* Properties of the order of the cycles *)

\* C30: a permutation with the mapping of the one held, whatever the order
\* in which its HashMap yields its keys, gets from disjoint_cycles the list
\* that was returned: the same cycles, in the same order, each from the same
\* first element.
Cex_C30_CyclesInOneOrder ==
    call.fn = "disjoint_cycles" =>
        \A iteration \in F4_iterations :
           disjoint_cycles(selected_permutation, iteration) = call.ret

=============================================================================
